---- MODULE Spec2Model ----
(***************************************************************************)
(* A model of the websocket message broker of lwsdk:                       *)
(*   - ConcurrentQueue<T>  (headers/ConcurrentQueue.h, ConcurrentQueue.tpp) *)
(*   - Webserver           (src/Webserver.cpp)                              *)
(*                                                                         *)
(* The specifications share the variables:                                 *)
(*   SpecQueue      one ConcurrentQueue used by concurrent threads         *)
(*   SpecFullQueue  the same, starting from a queue filled to its capacity *)
(*   Spec           the web server: caller threads, the loop thread and    *)
(*                  the engine callbacks lws_service() delivers on it      *)
(*   SpecIds        the connection table with a connectionIdSeq that wraps *)
(*   SpecLife       configuration, start() and stop(), engine failures,    *)
(*                  the dispatcher thread and a callback that may throw    *)
(*   SpecInbound    inbound fragments, the inbound queue, the dispatcher   *)
(*                  thread and receiveMessage                              *)
(*   SpecRestart    runs that follow one another: the callback set and    *)
(*                  removed, start() and stop(), stop() from the callback  *)
(*   SpecDrain      the outbound queue with the loop thread's size() test  *)
(*                  and its take() as separate steps                       *)
(*   SpecWake       the wake of the loop thread: lws_service returns only  *)
(*                  when lws_cancel_service has been called                *)
(***************************************************************************)
EXTENDS Integers, Sequences, FiniteSets, TLC

(***************************************************************************)
(* Bounds of the model                                                     *)
(***************************************************************************)
\* threads using the queue in SpecQueue
NThreads == 2
\* offer calls made in one behaviour of SpecQueue (items are numbered 1..MaxOffers)
MaxOffers == 2
\* largest capacity a queue is constructed with in SpecQueue
MaxCapacity == 1

\* MAX_PAYLOAD (Webserver.cpp: 4096), scaled down: bytes in one frame
MAX_PAYLOAD == 2
\* MAX_CLIENTS (Webserver.cpp: 64), scaled down: size of the connection table
MAX_CLIENTS == 2
\* capacity of outgoingMessages (Webserver.cpp: 100), scaled down
OutCapacity == 2
\* websocket sessions (struct lws) the engine has at one time
MaxSessions == 3
\* messages accepted by sendMessage in one behaviour of Spec
MaxMsgs == 2
\* connections accepted in one behaviour of Spec: connectionIdSeq stays
\* far below 2^32 there; SpecIds lets it wrap
MaxConnSeq == 2
\* width in bits of connectionIdSeq in SpecIds (uint32_t in the source)
IdBits == 2
\* capacity of incomingMessages (Webserver.cpp: 100), scaled down
InCapacity == 1
\* capacity of outgoingMessages in SpecLife, below MaxMsgs: sendMessage meets
\* a full queue there
LifeOutCapacity == 1
\* fragments the sessions receive in SpecInbound
MaxFrags == 2
\* clients that connect in SpecInbound
MaxInConns == 1

Threads == 1..NThreads
Sessions == 1..MaxSessions
\* constructor arguments tried: negative, zero (both unbounded) and bounded
CtorArgs == (0 - 1)..MaxCapacity

VARIABLES
    \* ---- SpecQueue: one ConcurrentQueue<int> and the threads that use it
    cq,         \* the queue object: [items, interrupted, capacity]
    th,         \* per thread: the call it is in and where it stands in it
    nextItem,   \* number of the next item a thread offers
    offered,    \* history: the items appended, in the order push_back ran
    taken,      \* history: the items a removing take returned, in order
    last,       \* history: the call that returned in the latest step and its
                \* outcome (NoReturn when that step was not a return)
    \* ---- Spec, SpecIds: the web server
    keepWorking,      \* atomic_bool keepWorking
    serverThread,     \* serverThread != nullptr
    context,          \* context != nullptr
    outgoingMessages, \* ConcurrentQueue<WSMessage> outgoingMessages
    wsConnections,    \* map<uint32_t, WSConnection>: id -> entry
    connectionIdSeq,  \* uint32_t connectionIdSeq
    sess,             \* per engine session (wsi): its state and pss->connection
    pc,               \* where the loop thread (mainServerThread) stands
    m,                \* loop thread: WSMessage m, the message being fanned out
    it,               \* loop thread: the iterator of "for ( auto& conn : wsConnections )"
    nextSeq,          \* history: number of the next message sendMessage accepts
    assigned,         \* history: per session, the message last put in its outbox
    wire,             \* history: per session, the frames handed to lws_write
                      \* for that message
    cut,              \* history: per session, whether a message was put in its
                      \* outbox when the last frame written was not a final frame
    busyAtTake,       \* history: the connections that had a pending outbox when
                      \* the loop thread dequeued m
    \* ---- the web server: configuration, lifecycle and the inbound side
    config,              \* hostname, webDir, port, sslCertPath, sslKeyPath, sslPort
    userCallback,        \* userCallback != nullptr
    msgDispatcherThread, \* msgDispatcherThread != nullptr
    incomingMessages,    \* ConcurrentQueue<WSMessage> incomingMessages
    nsvc,                \* loop thread: int n, what lws_service returned last
    stopper,             \* where the thread that called stop() stands in it
    dpc,                 \* where the dispatcher thread (mainDispatcherThread) stands
    receiver,            \* the thread that called receiveMessage(): its call
    ret,                 \* history: what the latest sendMessage / receiveMessage
                         \* call returned
    loopThreads,         \* history: threads running mainServerThread
    recvd,               \* history: per session, the fragments LWS_CALLBACK_RECEIVE
                         \* was called with since the session was last established
    delivered,           \* dispatcher thread: WSMessage m, the message the user
                         \* callback is running on
    sender,              \* the thread that called sendMessage(): where it stands
                         \* in the call and the message it offers
    rxPending,           \* loop thread inside LWS_CALLBACK_RECEIVE: the message it
                         \* holds inside offer( msg, 0 ) and where it returns to
    cancelled            \* the engine: lws_cancel_service was called on the
                         \* context and no lws_service call has returned since

qvars == <<cq, th, nextItem, offered, taken, last>>
wvars == <<keepWorking, serverThread, context, outgoingMessages, wsConnections,
           connectionIdSeq, sess, pc, m, it, nextSeq, assigned, wire, cut,
           busyAtTake>>
\* groups of variables the actions leave unchanged together
connvars == <<wsConnections, connectionIdSeq, sess>>
outvars == <<outgoingMessages, m, it, nextSeq, assigned, wire, cut, busyAtTake>>
invars == <<incomingMessages, dpc, receiver, recvd, delivered, rxPending>>
lvars == <<config, userCallback, msgDispatcherThread, incomingMessages, nsvc,
           stopper, dpc, receiver, ret, loopThreads, recvd, delivered, sender,
           rxPending, cancelled>>
vars == <<qvars, wvars, lvars>>

(***************************************************************************)
(* ConcurrentQueue<T>: the object and the code that runs under its mutex   *)
(***************************************************************************)
\* ConcurrentQueue( int capacity )
ConcurrentQueue(capacity) ==
    [items |-> <<>>,
     interrupted |-> FALSE,
     capacity |-> IF capacity > 0 THEN capacity ELSE 0]

\* size(): items.size() under the lock
size(q) == Len(q.items)

\* isEmpty()
isEmpty(q) == Len(q.items) = 0

\* take(): auto unblockCondition = [this] { return interrupted || !items.empty(); }
takeUnblockCondition(q) == q.interrupted \/ q.items # <<>>

\* items.front()
front(q) == Head(q.items)

\* a plausible slip: the item is returned and left in the deque
pop_frontKeeps(q) == q

\* items.pop_front()
pop_front(q) == [q EXCEPT !.items = Tail(@)]

\* a plausible slip: the item is put at the head of the deque
push_front(q, item) == [q EXCEPT !.items = <<item>> \o @]

\* items.push_back( item )
push_back(q, item) == [q EXCEPT !.items = Append(@, item)]

\* interrupt(): interrupted = true  (the notify_all is in the action)
setInterrupted(q) == [q EXCEPT !.interrupted = TRUE]

\* a plausible slip: offer() keeps the flag and leaves clearing it to the push
offerEntryKeepsFlag(q) == q

\* offer(): the first statement under the lock, interrupted = false
offerEntry(q) == [q EXCEPT !.interrupted = FALSE]

\* a plausible slip: the capacity test is "<=" and lets one item too many in
offerHasRoomOffByOne(q) == q.capacity = 0 \/ Len(q.items) <= q.capacity

\* the capacity part of offer()'s unblockCondition
offerHasRoom(q) == q.capacity = 0 \/ Len(q.items) < q.capacity

\* offer(): auto unblockCondition =
\*    [this] { return interrupted || capacity == 0 || items.size() < (size_t)capacity; }
offerUnblockCondition(q) == q.interrupted \/ offerHasRoom(q)

(***************************************************************************)
(* The threads of SpecQueue.  th[t] is                                     *)
(*   op     the call: "none", "take" (untimed), "ttake" (timed take),      *)
(*          "offer" (untimed), "toffer" (timed offer)                       *)
(*   st     "idle"    not in a call                                         *)
(*          "blocked" inside cv.wait / cv.wait_for, mutex released          *)
(*          "ready"   woken (notify or spurious), has to take the mutex     *)
(*          "expired" the wait_for timed out, has to take the mutex         *)
(*   item   the item offered; remove: take's flag; to: timeoutMsec (0 or 1) *)
(*   intr   history: interrupt() ran while this call was inside its wait    *)
(*          (for an offer call: and the queue was full at that moment)      *)
(*   clr    history: this offer call found the flag set and cleared it      *)
(* last is the call that returned in the latest step: its op, to, the two  *)
(* history flags                                                           *)
(* and its outcome rk: "item" | "thrown" | "empty" | "true" | "false"      *)
(***************************************************************************)
Idle(t) == th[t].st = "idle"
Blocked == {t \in Threads : th[t].st = "blocked"}

NewCall(op, item, remove, to) ==
    [op |-> op, st |-> "idle", item |-> item, remove |-> remove, to |-> to,
     intr |-> FALSE, clr |-> FALSE]

NoCall == NewCall("none", 0, FALSE, 0)

\* cv.notify_all(): every waiter leaves the wait and competes for the mutex
notify_all(T) ==
    [u \in Threads |-> IF T[u].st = "blocked" THEN [T[u] EXCEPT !.st = "ready"] ELSE T[u]]

\* cv.notify_one() waking waiter u
notify_one(T, u) == [T EXCEPT ![u].st = "ready"]

\* the waiters notify_one() may wake: any one of them, 0 when there is none
NotifyChoices(T) ==
    IF {u \in Threads : T[u].st = "blocked"} = {} THEN {0}
    ELSE {u \in Threads : T[u].st = "blocked"}

\* what last records when call c returns with outcome rk
Returned(c, rk) ==
    [op |-> c.op, to |-> c.to, intr |-> c.intr, clr |-> c.clr, rk |-> rk]

\* take(): the code after the wait, run with the mutex held and the
\* unblockCondition true: throw / return nullopt if interrupted, else front,
\* pop_front if remove, and (popped) cv.notify_all()
takeAfterWait(q, remove, timed) ==
    IF q.interrupted
    THEN [q |-> q, rk |-> IF timed THEN "empty" ELSE "thrown", rv |-> 0, popped |-> FALSE]
    ELSE [q |-> IF remove THEN pop_front(q) ELSE q,
          rk |-> "item", rv |-> front(q), popped |-> TRUE]

\* offer(): the code after the wait, run with the mutex held and the
\* unblockCondition true: throw / return false if interrupted, else push_back
\* and (pushed) cv.notify_one()
offerAfterWait(q, item, timed) ==
    IF q.interrupted
    THEN [q |-> q, rk |-> IF timed THEN "false" ELSE "thrown", pushed |-> FALSE]
    ELSE [q |-> push_back(q, item), rk |-> "true", pushed |-> TRUE]

Timeouts == {0, 1}

\* what last holds after a step in which no call returned
NoReturn == Returned(NoCall, "none")

\* thread t, in call c, returns outcome rk
Returns(t, c, rk) ==
    /\ th' = [th EXCEPT ![t] = NoCall]
    /\ last' = Returned(c, rk)

\* thread t, in call c, releases the mutex inside cv.wait / cv.wait_for
Waits(t, c, st) ==
    /\ th' = [th EXCEPT ![t] = [c EXCEPT !.st = st]]
    /\ last' = NoReturn

\* take: thread t, in call c, holds the mutex and its unblockCondition is true
TakeProceeds(t, c, timed) ==
    LET r == takeAfterWait(cq, c.remove, timed)
    IN /\ cq' = r.q
       /\ th' = IF r.popped
                THEN notify_all([th EXCEPT ![t] = NoCall])
                ELSE [th EXCEPT ![t] = NoCall]
       /\ last' = Returned(c, r.rk)
       /\ taken' = IF r.popped /\ c.remove THEN Append(taken, r.rv) ELSE taken

\* offer: thread t, in call c, holds the mutex, the queue is q (after the
\* entry code when the call has just been made) and its unblockCondition is true
OfferProceeds(t, c, timed, q) ==
    LET r == offerAfterWait(q, c.item, timed)
    IN /\ cq' = r.q
       /\ offered' = IF r.pushed THEN Append(offered, c.item) ELSE offered
       /\ last' = Returned(c, r.rk)
       /\ \E u \in NotifyChoices([th EXCEPT ![t] = NoCall]) :
            th' = IF r.pushed /\ u # 0
                  THEN notify_one([th EXCEPT ![t] = NoCall], u)
                  ELSE [th EXCEPT ![t] = NoCall]

\* ---- T take( bool remove ): the call, up to its return or its wait
take(t, remove) ==
    /\ UNCHANGED <<wvars, lvars>>
    /\ Idle(t)
    /\ LET c == NewCall("take", 0, remove, 0)
       IN IF takeUnblockCondition(cq)
          THEN TakeProceeds(t, c, FALSE)
          ELSE Waits(t, c, "blocked") /\ UNCHANGED <<cq, taken>>
    /\ UNCHANGED <<nextItem, offered>>

\* ---- take( bool ): a woken thread has the mutex again and cv.wait tests
\* the unblockCondition
takeWake(t) ==
    /\ UNCHANGED <<wvars, lvars>>
    /\ th[t].op = "take" /\ th[t].st = "ready"
    /\ IF takeUnblockCondition(cq)
       THEN TakeProceeds(t, th[t], FALSE)
       ELSE Waits(t, th[t], "blocked") /\ UNCHANGED <<cq, taken>>
    /\ UNCHANGED <<nextItem, offered>>

\* ---- optional<T> take( uint32_t timeoutMsec, bool remove ): the call
ttake(t, to, remove) ==
    /\ UNCHANGED <<wvars, lvars>>
    /\ Idle(t)
    /\ LET c == NewCall("ttake", 0, remove, to)
       IN IF to = 0 /\ isEmpty(cq)                       \* fail fast
          THEN Returns(t, c, "empty") /\ UNCHANGED <<cq, taken>>
          ELSE IF takeUnblockCondition(cq)
          THEN TakeProceeds(t, c, TRUE)
          ELSE Waits(t, c, "blocked") /\ UNCHANGED <<cq, taken>>
    /\ UNCHANGED <<nextItem, offered>>

\* ---- take( uint32_t, bool ): back from cv.wait_for with the mutex held.
\* wait_for returns the unblockCondition when the time is up, and waits again
\* when woken early with the condition false.
ttakeWake(t) ==
    /\ UNCHANGED <<wvars, lvars>>
    /\ th[t].op = "ttake" /\ th[t].st \in {"ready", "expired"}
    /\ IF takeUnblockCondition(cq)
       THEN TakeProceeds(t, th[t], TRUE)
       ELSE /\ IF th[t].st = "expired"
               THEN Returns(t, th[t], "empty")
               ELSE Waits(t, th[t], "blocked")
            /\ UNCHANGED <<cq, taken>>
    /\ UNCHANGED <<nextItem, offered>>

\* ---- void offer( T item ): the call
offer(t) ==
    /\ UNCHANGED <<wvars, lvars>>
    /\ Idle(t)
    /\ nextItem <= MaxOffers
    /\ nextItem' = nextItem + 1
    /\ LET c == [NewCall("offer", nextItem, FALSE, 0) EXCEPT !.clr = cq.interrupted]
       IN IF offerUnblockCondition(offerEntry(cq))
          THEN OfferProceeds(t, c, FALSE, offerEntry(cq))
          ELSE /\ cq' = offerEntry(cq)
               /\ Waits(t, c, "blocked")
               /\ UNCHANGED offered
    /\ UNCHANGED taken

\* ---- offer( T ): a woken thread has the mutex again
offerWake(t) ==
    /\ UNCHANGED <<wvars, lvars>>
    /\ th[t].op = "offer" /\ th[t].st = "ready"
    /\ IF offerUnblockCondition(cq)
       THEN OfferProceeds(t, th[t], FALSE, cq)
       ELSE Waits(t, th[t], "blocked") /\ UNCHANGED <<cq, offered>>
    /\ UNCHANGED <<nextItem, taken>>

\* ---- bool offer( T item, uint32_t timeoutMsec ): the call.  With the
\* condition false wait_for releases the mutex even when timeoutMsec is 0;
\* the time is then already up ("expired").
toffer(t, to) ==
    /\ UNCHANGED <<wvars, lvars>>
    /\ Idle(t)
    /\ nextItem <= MaxOffers
    /\ nextItem' = nextItem + 1
    /\ LET c == [NewCall("toffer", nextItem, FALSE, to) EXCEPT !.clr = cq.interrupted]
       IN IF offerUnblockCondition(offerEntry(cq))
          THEN OfferProceeds(t, c, TRUE, offerEntry(cq))
          ELSE /\ cq' = offerEntry(cq)
               /\ Waits(t, c, IF to = 0 THEN "expired" ELSE "blocked")
               /\ UNCHANGED offered
    /\ UNCHANGED taken

\* ---- offer( T, uint32_t ): back from cv.wait_for with the mutex held
tofferWake(t) ==
    /\ UNCHANGED <<wvars, lvars>>
    /\ th[t].op = "toffer" /\ th[t].st \in {"ready", "expired"}
    /\ IF offerUnblockCondition(cq)
       THEN OfferProceeds(t, th[t], TRUE, cq)
       ELSE /\ IF th[t].st = "expired"
               THEN Returns(t, th[t], "false")
               ELSE Waits(t, th[t], "blocked")
            /\ UNCHANGED <<cq, offered>>
    /\ UNCHANGED <<nextItem, taken>>

\* ---- void interrupt(), called by a thread that is not inside a call
interrupt(t) ==
    /\ UNCHANGED <<wvars, lvars>>
    /\ Idle(t)
    /\ cq' = setInterrupted(cq)
    /\ th' = notify_all([u \in Threads |->
                 IF th[u].st # "idle" /\ (th[u].op \in {"take", "ttake"} \/ ~offerHasRoom(cq))
                 THEN [th[u] EXCEPT !.intr = TRUE]
                 ELSE th[u]])
    /\ last' = NoReturn
    /\ UNCHANGED <<nextItem, offered, taken>>

\* ---- the condition variable wakes a waiter without a notification
cvSpuriousWake(t) ==
    /\ UNCHANGED <<wvars, lvars>>
    /\ th[t].st = "blocked"
    /\ th' = [th EXCEPT ![t].st = "ready"]
    /\ last' = NoReturn
    /\ UNCHANGED <<cq, nextItem, offered, taken>>

\* ---- the time of a wait_for is up
cvTimeout(t) ==
    /\ UNCHANGED <<wvars, lvars>>
    /\ th[t].st = "blocked" /\ th[t].op \in {"ttake", "toffer"}
    /\ th' = [th EXCEPT ![t].st = "expired"]
    /\ last' = NoReturn
    /\ UNCHANGED <<cq, nextItem, offered, taken>>

(***************************************************************************)
(* Webserver: data                                                         *)
(***************************************************************************)
\* a null shared_ptr<string> outbox; a set outbox holds the payload, with the
\* number and the destination of the message it came from
NULL == [seq |-> 0, dest |-> 0, msg |-> <<>>]

\* the end() iterator of wsConnections, and the nullptr of pss->connection:
\* connection ids are never 0
End == 0

\* WSConnection( id, wsi ): inbox and outbox are empty and outpos is 0
WSConnection(id, wsi) ==
    [id |-> id, wsi |-> wsi, inbox |-> <<>>, outbox |-> NULL, outpos |-> 0]

\* the payload of a message: length len, bytes that tell the message and
\* the position apart
Payload(seq, len) == [i \in 1..len |-> <<seq, i>>]

\* WSMessage{ connectionId, msg }
WSMessage(seq, dest, len) == [seq |-> seq, connectionId |-> dest, msg |-> Payload(seq, len)]

\* the loop thread holds no message
NoMessage == [seq |-> 0, connectionId |-> 0, msg |-> <<>>]

\* payload lengths sendMessage is called with: empty, exactly one frame,
\* and two full frames and a byte
MsgLens == {0, MAX_PAYLOAD, 2 * MAX_PAYLOAD + 1}

\* destinations sendMessage is called with: 0 (everyone) and the id of the
\* first connection, which may be live, closed or yet to come
Dests == {0, 1}

\* a session the engine has not established, or whose pss is freed
NoSession == [st |-> "none", conn |-> End, dangling |-> FALSE]


\* unsigned arithmetic of w bits. The integers of the model stay below 2^31,
\* where a counter of 31 bits or more has not wrapped.
wrap(x, w) == IF w >= 31 THEN x ELSE x % (2^w)

\* the bits of uint32_t
Uint32 == 32

\* Files::exists( path ): the files and directories there are
exists(path) == path \in {"www", "cert", "key"}

\* the configuration the static initialisers leave: empty strings, ports -1
NoConfig ==
    [hostname |-> "", webDir |-> "", port |-> 0 - 1,
     sslCertPath |-> "", sslKeyPath |-> "", sslPort |-> 0 - 1]

\* a thread that is not inside receiveMessage(): st is "idle"; inside the
\* wait of incomingMessages.take( timeoutMsec ) it is "blocked", "ready"
\* or "expired", as for the threads of SpecQueue
NoReceive == [st |-> "idle"]

\* a thread that is not inside sendMessage(): st is "idle"; "expired" inside
\* the wait_for of offer( m, 0 ), "cancel" before lws_cancel_service
NoSend == [st |-> "idle", msg |-> NoMessage]

\* the loop thread is not inside the offer( msg, 0 ) of LWS_CALLBACK_RECEIVE
NoRx == [msg |-> NoMessage, pc |-> "none"]

\* the state the static initialisers leave: no thread, no context, no
\* callback, an empty table, connectionIdSeq 1, two empty queues of capacity
\* 100 (here InCapacity, and outCapacity for outgoingMessages)
Constructed(outCapacity) ==
    /\ keepWorking = FALSE
    /\ serverThread = FALSE
    /\ context = FALSE
    /\ outgoingMessages = ConcurrentQueue(outCapacity)
    /\ config = NoConfig
    /\ userCallback = FALSE
    /\ msgDispatcherThread = FALSE
    /\ incomingMessages = ConcurrentQueue(InCapacity)
    /\ nsvc = 0
    /\ stopper = "none"
    /\ dpc = "none"
    /\ receiver = NoReceive
    /\ ret = [op |-> "none", rk |-> "none", msg |-> NoMessage]
    /\ loopThreads = 0
    /\ recvd = [s \in Sessions |-> <<>>]
    /\ delivered = NoMessage
    /\ sender = NoSend
    /\ rxPending = NoRx
    /\ cancelled = FALSE
    /\ wsConnections = <<>>
    /\ connectionIdSeq = 1
    /\ sess = [s \in Sessions |-> NoSession]
    /\ pc = "none"
    /\ m = NoMessage
    /\ it = End
    /\ nextSeq = 1
    /\ assigned = [s \in Sessions |-> NoMessage]
    /\ wire = [s \in Sessions |-> <<>>]
    /\ cut = [s \in Sessions |-> FALSE]
    /\ busyAtTake = {}

InitServer == Constructed(OutCapacity)

\* the state the constructor of the queue leaves, and idle threads
QueueConstructed ==
    /\ \E c \in CtorArgs : cq = ConcurrentQueue(c)
    /\ th = [t \in Threads |-> NoCall]
    /\ nextItem = 1
    /\ offered = <<>>
    /\ taken = <<>>
    /\ last = NoReturn

InitQueue == QueueConstructed /\ InitServer

NextQueue ==
    \E t \in Threads :
        \/ \E remove \in BOOLEAN : take(t, remove)
        \/ takeWake(t)
        \/ \E to \in Timeouts, remove \in BOOLEAN : ttake(t, to, remove)
        \/ ttakeWake(t)
        \/ offer(t)
        \/ offerWake(t)
        \/ \E to \in Timeouts : toffer(t, to)
        \/ tofferWake(t)
        \/ interrupt(t)
        \/ cvSpuriousWake(t)
        \/ cvTimeout(t)

SpecQueue == InitQueue /\ [][NextQueue]_vars

(***************************************************************************)
(* ConcurrentQueue: the claims, checked under SpecQueue                    *)
(***************************************************************************)
\* a step in which a thread makes an offer call (of either kind): the entry
\* of offer is the only code that draws an item number
OfferCall == nextItem' = nextItem + 1

\* a step in which a thread returns from a take call (of either kind)
TakeReturn == last'.op \in {"take", "ttake"}

\* a step in which thread t, inside a call, returns from it
Return(t) == th[t].op # "none" /\ th'[t].op = "none"

\* C7 (queue FIFO order): the items appended to the queue, in the order they
\* were appended, are the items the removing take calls have returned, in the
\* order they returned them, followed by the items still queued: nothing is
\* lost, duplicated or reordered, whatever the interleaving of the threads.
C7_FifoOrder == offered = taken \o cq.items

\* two items offered by the threads have both come out of removing takes
C7_Witness == Len(taken) >= 2 /\ last.rk = "item"

\* C8 (queue capacity bound): a queue of capacity N > 0 never holds more than
\* N items; offer(item, 0) never stays in the wait, and when it decides on a
\* queue holding N items it returns false and leaves the items alone; a queue
\* constructed with capacity <= 0 appends the item of every offer call at once.
C8_CapacityBound ==
    /\ [](cq.capacity > 0 => size(cq) <= cq.capacity)
    /\ [](\A t \in Threads : th[t].op = "toffer" /\ th[t].to = 0 => th[t].st = "expired")
    /\ [][/\ \A t \in Threads :
               (/\ th[t].op = "toffer" /\ th[t].to = 0
                /\ cq.capacity > 0 /\ size(cq) = cq.capacity
                /\ Return(t))
               => (last'.op = "toffer" /\ last'.rk = "false" /\ cq'.items = cq.items)
          /\ (cq.capacity = 0 /\ OfferCall)
               => (/\ cq'.items = Append(cq.items, nextItem)
                   /\ last'.op \in {"offer", "toffer"} /\ last'.rk = "true")
         ]_vars

\* offer(item, 0) has just returned false on a full bounded queue
C8_Witness ==
    /\ last.op = "toffer" /\ last.to = 0 /\ last.rk = "false"
    /\ cq.capacity > 0 /\ size(cq) = cq.capacity

\* C9 (interrupt unblocks take()): an untimed take() that was inside its wait
\* when interrupt() was called ends by raising InterruptedException.
C9_InterruptedTakeThrows == (last.op = "take" /\ last.intr) => last.rk = "thrown"

\* C10 as stated (interrupt is sticky until a successful offer): an offer call
\* that returned false has not cleared the interrupted flag.
C10_FailedOfferKeepsFlag ==
    (last.op = "toffer" /\ last.rk = "false") => ~last.clr

\* C10 as amended: the interrupted flag, once set, is cleared only by the
\* entry of an offer call; every offer call clears it on entry, whether or not
\* it goes on to append its item; and every take call that returns while the
\* flag is set fails (throws / returns empty) and leaves the queue as it was.
C10_StickyUntilOfferCall ==
    [][/\ (cq.interrupted /\ ~cq'.interrupted) => OfferCall
       /\ cq'.interrupted => ~OfferCall
       /\ (cq.interrupted /\ TakeReturn) => (last'.rk \in {"thrown", "empty"} /\ cq' = cq)
      ]_vars

\* an offer call found the flag set, cleared it and returned false
C10_Witness == last.op = "toffer" /\ last.rk = "false" /\ last.clr

\* a bounded queue that earlier offer calls have filled to its capacity: its
\* items are numbered 1 - capacity .. 0, and the threads are idle
QueueFilled ==
    /\ \E c \in 1..MaxCapacity :
          /\ cq = [ConcurrentQueue(c) EXCEPT !.items = [i \in 1..c |-> i - c]]
          /\ offered = [i \in 1..c |-> i - c]
    /\ th = [t \in Threads |-> NoCall]
    /\ nextItem = 1
    /\ taken = <<>>
    /\ last = NoReturn

InitFullQueue == QueueFilled /\ InitServer

\* the threads of SpecQueue, starting on a full queue
SpecFullQueue == InitFullQueue /\ [][NextQueue]_vars

\* C11 (interrupt wakes every blocked producer): an offer call (of either
\* kind) that was inside its wait for free capacity when interrupt() was
\* called ends with the failure outcome: the untimed offer throws
\* InterruptedException, the timed offer returns false.
C11_InterruptedOfferFails ==
    (last.op \in {"offer", "toffer"} /\ last.intr) => last.rk \in {"thrown", "false"}

(***************************************************************************)
(* Webserver: the connection table                                         *)
(***************************************************************************)
\* wsConnections.erase( id )
erase(table, id) == [k \in DOMAIN table \ {id} |-> table[k]]

\* wsConnections.emplace( make_pair( id, c ) ): no effect when the key exists
emplace(table, id, c) ==
    IF id \in DOMAIN table THEN table ELSE (id :> c) @@ table

\* addConnection( wsi ) with a connectionIdSeq of w bits: the table and
\* the counter it leaves, and the key of the entry the returned pointer points
\* to (End for nullptr)
addConnection(table, idSeq, wsi, w) ==
    IF Cardinality(DOMAIN table) >= MAX_CLIENTS
    THEN [table |-> table, idSeq |-> idSeq, conn |-> End, added |-> FALSE]
    ELSE LET id == IF idSeq = 0 THEN wrap(idSeq + 1, w) ELSE idSeq
         IN [table |-> emplace(table, id, WSConnection(id, wsi)),
             idSeq |-> wrap(id + 1, w),
             conn  |-> id,
             added |-> id \notin DOMAIN table]

\* removeConnection( id )
removeConnection(table, id) == erase(table, id)

\* wsConnections.begin(), and ++it on a valid iterator: a std::map is walked
\* in the order of its keys
Least(S) == CHOOSE x \in S : \A y \in S : x <= y
begin(table) == IF DOMAIN table = {} THEN End ELSE Least(DOMAIN table)
next(table, k) ==
    LET after == {j \in DOMAIN table : j > k}
    IN IF after = {} THEN End ELSE Least(after)

\* the engine is inside lws_service() on the loop thread: the only place the
\* callbacks run
InService == context /\ pc \in {"service", "flush"}

\* no callback has returned -1 for a session the engine has yet to close
\* (the engine closes it before it does anything else)
NoPendingClose == \A s \in Sessions : sess[s].st \in {"none", "open"}
NoOtherPendingClose(s) ==
    \A t \in Sessions \ {s} : sess[t].st \in {"none", "open"}

\* the engine takes the first free session for a client that connects
FreeSession(s) ==
    /\ sess[s].st = "none"
    /\ \A t \in Sessions : t < s => sess[t].st # "none"

(***************************************************************************)
(* Webserver: lwsCallback                                                  *)
(***************************************************************************)
\* LWS_CALLBACK_ESTABLISHED for session s. Returning -1 makes the engine
\* close the session.
ESTABLISHED(s, w) ==
    /\ FreeSession(s)
    /\ LET r == addConnection(wsConnections, connectionIdSeq, s, w)
       IN /\ wsConnections' = r.table
          /\ connectionIdSeq' = r.idSeq
          /\ sess' = [sess EXCEPT ![s] =
                        [st |-> IF r.conn = End THEN "rejected" ELSE "open",
                         conn |-> r.conn, dangling |-> FALSE]]
    /\ assigned' = [assigned EXCEPT ![s] = NoMessage]
    /\ wire' = [wire EXCEPT ![s] = <<>>]
    /\ cut' = [cut EXCEPT ![s] = FALSE]
    /\ recvd' = [recvd EXCEPT ![s] = <<>>]

\* LWS_CALLBACK_CLOSED for session s; the engine then frees the session.
\* pss->connection->id is read through a pointer; when the entry it pointed
\* to is already erased the read yields any value.
CLOSED(s, w) ==
    /\ sess[s].st \in {"open", "rejected", "failed"}
    /\ IF sess[s].conn = End
       THEN /\ sess' = [sess EXCEPT ![s] = NoSession]          \* return -1
            /\ UNCHANGED wsConnections
       ELSE \E id \in IF sess[s].dangling THEN 0..(2^w - 1) ELSE {sess[s].conn} :
               /\ wsConnections' = removeConnection(wsConnections, id)
               /\ sess' = [t \in Sessions |->
                             IF t = s THEN NoSession
                             ELSE IF sess[t].conn = id /\ id \in DOMAIN wsConnections
                             THEN [sess[t] EXCEPT !.dangling = TRUE]
                             ELSE sess[t]]
    /\ assigned' = [assigned EXCEPT ![s] = NoMessage]
    /\ wire' = [wire EXCEPT ![s] = <<>>]
    /\ cut' = [cut EXCEPT ![s] = FALSE]
    /\ UNCHANGED <<connectionIdSeq, recvd>>

Min(a, b) == IF a <= b THEN a ELSE b

\* the chunk LWS_CALLBACK_SERVER_WRITEABLE cuts from the outbox s at outpos
finalChunkOffByOne(start, slen) == start + MAX_PAYLOAD > slen
finalChunk(start, slen) == start + MAX_PAYLOAD >= slen
chunk(s, outpos) ==
    LET start == outpos
        end == Min(Len(s), start + MAX_PAYLOAD)
    IN [start |-> start, end |-> end, length |-> end - start,
        data |-> SubSeq(s, start + 1, end),
        first |-> (start = 0),
        final |-> finalChunk(start, Len(s))]

\* "if ( n < length || final ) connection->outbox = nullptr"
freesOutboxEarly(n, c) == n < c.length \/ c.first
freesOutbox(n, c) == n < c.length \/ c.final

\* a plausible slip: only an error return of lws_write counts as a failure
incompleteWriteNegative(n, length) == n < 0

\* "if (n < length) { loge( "WRITE: Incomplete write error ..." ); return -1; }"
incompleteWrite(n, length) == n < length

\* LWS_CALLBACK_SERVER_WRITEABLE for session s, where lws_write returns n.
\* The engine may call it at any time ("spurious write callback").
WRITEABLE(s) ==
    /\ sess[s].st = "open"
    /\ sess[s].conn \in DOMAIN wsConnections
    /\ LET connection == wsConnections[sess[s].conn]
       IN IF connection.outbox = NULL
          THEN UNCHANGED <<wsConnections, sess, wire>>
          ELSE LET c == chunk(connection.outbox.msg, connection.outpos)
               IN \E n \in (0 - 1)..c.length :
                    /\ wire' = [wire EXCEPT ![s] = Append(@,
                                  [data |-> c.data, short |-> (n < c.length),
                                   first |-> c.first, final |-> c.final])]
                    /\ wsConnections' = [wsConnections EXCEPT ![sess[s].conn] =
                          [@ EXCEPT !.outpos = c.end,
                                    !.outbox = IF freesOutbox(n, c) THEN NULL ELSE @]]
                    /\ sess' = IF incompleteWrite(n, c.length)
                               THEN [sess EXCEPT ![s].st = "failed"]
                               ELSE sess
    /\ UNCHANGED <<connectionIdSeq, assigned, cut>>

(***************************************************************************)
(* Webserver: the public calls                                             *)
(***************************************************************************)
\* the process has died (std::terminate, or a crash inside the engine): no
\* thread takes another step
ProcessDied == pc = "crashed"

\* history: what the latest sendMessage / receiveMessage call to return
\* returned: the call, its outcome rk ("true" | "false" | "item" | "empty" |
\* "thrown"), and the message receiveMessage returned
Result(op, rk, msg) == [op |-> op, rk |-> rk, msg |-> msg]
NoResult == Result("none", "none", NoMessage)

\* setConfig( hostname, webDir, port ): throws while keepWorking
setConfig(hostname, webDir, port) ==
    /\ ~ProcessDied
    /\ config' = IF keepWorking
                 THEN config                                   \* throws
                 ELSE [config EXCEPT !.hostname = hostname, !.webDir = webDir,
                                     !.port = port]
    /\ UNCHANGED <<qvars, wvars, userCallback, msgDispatcherThread,
                   incomingMessages, nsvc, stopper, dpc, receiver, ret, sender, rxPending,
                   loopThreads, recvd, delivered>>
    /\ UNCHANGED cancelled

\* setConfigSSL( sslPort, sslCertPath, sslKeyPath ): throws while
\* keepWorking, and when one of the two files is missing
setConfigSSL(sslPort, sslCertPath, sslKeyPath) ==
    /\ ~ProcessDied
    /\ config' = IF keepWorking \/ ~exists(sslCertPath) \/ ~exists(sslKeyPath)
                 THEN config                                   \* throws
                 ELSE [config EXCEPT !.sslKeyPath = sslKeyPath,
                                     !.sslCertPath = sslCertPath,
                                     !.sslPort = sslPort]
    /\ UNCHANGED <<qvars, wvars, userCallback, msgDispatcherThread,
                   incomingMessages, nsvc, stopper, dpc, receiver, ret, sender, rxPending,
                   loopThreads, recvd, delivered>>
    /\ UNCHANGED cancelled

\* setMessageCallback( msgCallback ): cb tells whether msgCallback is set
setMessageCallback(cb) ==
    /\ ~ProcessDied
    /\ userCallback' = cb
    /\ UNCHANGED <<qvars, wvars, config, msgDispatcherThread,
                   incomingMessages, nsvc, stopper, dpc, receiver, ret, sender, rxPending,
                   loopThreads, recvd, delivered>>
    /\ UNCHANGED cancelled

\* start(): "if ( serverThread != nullptr ) return"
startReturnsNever(thread) == FALSE
startReturns(thread) == thread

\* start(): the three tests that throw RuntimeException
startThrows(c) ==
    \/ c.port = c.sslPort
    \/ c.port <= 0 /\ c.sslPort <= 0
    \/ ~exists(c.webDir)

\* start(). The new thread has not run "int n = 0" yet: its n reads as 0.
start ==
    /\ ~ProcessDied
    /\ IF startReturns(serverThread) \/ startThrows(config)
       THEN UNCHANGED <<keepWorking, serverThread, pc, loopThreads, nsvc>>
       ELSE /\ keepWorking' = TRUE
            /\ serverThread' = TRUE                \* new thread( mainServerThread )
            /\ pc' = "init"
            /\ nsvc' = 0
            /\ loopThreads' = loopThreads + 1
    /\ UNCHANGED <<qvars, context, connvars, outvars, invars, config,
                   userCallback, msgDispatcherThread, stopper, ret, sender>>
    /\ UNCHANGED cancelled

\* lws_cancel_service( context ) is defined while the context lives: from
\* lws_create_context until the loop thread calls lws_context_destroy
contextLive ==
    context /\ pc \in {"vhost", "service", "drain", "take", "takewait", "fanout",
                       "flush", "rxwait", "cleanup"}

\* sendMessage after offer( m, 0 ) returned res: "if ( res ) interrupt()",
\* where interrupt() is "if ( context != nullptr ) lws_cancel_service( context )".
\* slow: other threads run between the test of context and the call of
\* lws_cancel_service (sendCancel); otherwise the call follows the test at
\* once, and on a live context it has no effect on the state
sendOffered(res, slow) ==
    LET cancels == res /\ context
        waits == cancels /\ (slow \/ ~contextLive)
    IN /\ ret' = IF waits THEN ret
                 ELSE Result("sendMessage", IF res THEN "true" ELSE "false", NoMessage)
       /\ sender' = IF waits THEN [st |-> "cancel", msg |-> NoMessage] ELSE NoSend

\* sendMessage( message, destId ): outgoingMessages.offer( m, 0 ). With the
\* unblockCondition false, wait_for releases the mutex although the time is
\* already up, and tests the condition once more when it has the mutex again
\* (sendMessageWake)
sendMessage(len, destId, slow) ==
    /\ ~ProcessDied
    /\ sender = NoSend
    /\ nextSeq <= MaxMsgs
    /\ LET q == offerEntry(outgoingMessages)
           msg == WSMessage(nextSeq, destId, len)
           r == offerAfterWait(q, msg, TRUE)
       IN IF offerUnblockCondition(q)
          THEN /\ outgoingMessages' = r.q
               /\ nextSeq' = IF r.pushed THEN nextSeq + 1 ELSE nextSeq
               /\ sendOffered(r.pushed, slow)
          ELSE /\ outgoingMessages' = q
               /\ sender' = [st |-> "expired", msg |-> msg]
               /\ UNCHANGED <<nextSeq, ret>>
    /\ UNCHANGED <<qvars, keepWorking, serverThread, context, connvars, pc, m,
                   it, assigned, wire, cut, busyAtTake, invars, config,
                   userCallback, msgDispatcherThread, nsvc, stopper, loopThreads>>
    /\ UNCHANGED cancelled

\* sendMessage: back from wait_for with the mutex held; the time is up, so
\* offer returns false unless the queue has room by now
sendMessageWake(slow) ==
    /\ ~ProcessDied
    /\ sender.st = "expired"
    /\ LET r == offerAfterWait(outgoingMessages, sender.msg, TRUE)
       IN IF offerUnblockCondition(outgoingMessages)
          THEN /\ outgoingMessages' = r.q
               /\ nextSeq' = IF r.pushed THEN nextSeq + 1 ELSE nextSeq
               /\ sendOffered(r.pushed, slow)
          ELSE /\ sendOffered(FALSE, slow)
               /\ UNCHANGED <<outgoingMessages, nextSeq>>
    /\ UNCHANGED <<qvars, keepWorking, serverThread, context, connvars, pc, m,
                   it, assigned, wire, cut, busyAtTake, invars, config,
                   userCallback, msgDispatcherThread, nsvc, stopper, loopThreads>>
    /\ UNCHANGED cancelled

\* sendMessage: lws_cancel_service( context ), and the return of true. On a
\* context that lws_context_destroy has freed the call reads freed memory:
\* it may return, and it may bring the process down (died)
sendCancel(died) ==
    /\ ~ProcessDied
    /\ sender.st = "cancel"
    /\ died => ~contextLive
    /\ IF died
       THEN /\ sender' = [st |-> "crashed", msg |-> NoMessage]
            /\ pc' = "crashed"
            /\ UNCHANGED ret
       ELSE /\ sender' = NoSend
            /\ ret' = Result("sendMessage", "true", NoMessage)
            /\ UNCHANGED pc
    /\ UNCHANGED <<qvars, keepWorking, serverThread, context, connvars,
                   outgoingMessages, m, it, nextSeq, assigned, wire, cut,
                   busyAtTake, invars, config, userCallback,
                   msgDispatcherThread, nsvc, stopper, loopThreads>>
    /\ cancelled' = (cancelled \/ (~died /\ contextLive))

(***************************************************************************)
(* Webserver: mainServerThread                                             *)
(***************************************************************************)
\* "while ( n >= 0 && keepWorking )": where the loop thread goes from the
\* top of the main loop
loopTop(nn, working) == IF nn >= 0 /\ working THEN "service" ELSE "cleanup"

\* context = lws_create_context( &info ); a null context throws, and the
\* catch block leads to the cleanup
createContext(ok) ==
    /\ pc = "init"
    /\ context' = ok
    /\ pc' = IF ok THEN "vhost" ELSE "cleanup"
    /\ UNCHANGED <<qvars, keepWorking, serverThread, connvars, outvars, lvars>>

\* lws_create_vhost for the http and the https port: a failure throws. Then
\* the dispatcher thread is started if there is a user callback, n is set
\* to 0 and the main loop is entered.
createVhosts(ok) ==
    /\ pc = "vhost"
    /\ IF ok
       THEN /\ msgDispatcherThread' = (msgDispatcherThread \/ userCallback)
            /\ dpc' = IF userCallback THEN "loop" ELSE dpc
            /\ nsvc' = 0
            /\ pc' = loopTop(0, keepWorking)
       ELSE /\ pc' = "cleanup"
            /\ UNCHANGED <<msgDispatcherThread, dpc, nsvc>>
    /\ UNCHANGED <<qvars, keepWorking, serverThread, context, connvars, outvars,
                   config, userCallback, incomingMessages, stopper, receiver,
                   ret, sender, rxPending, loopThreads, recvd, delivered>>
    /\ UNCHANGED cancelled

\* "n = lws_service( context, 0 )" of the main loop returns r
serviceReturn(r) ==
    /\ pc = "service"
    /\ NoPendingClose
    /\ nsvc' = r
    /\ pc' = "drain"
    /\ UNCHANGED <<qvars, keepWorking, serverThread, context, connvars, outvars,
                   config, userCallback, msgDispatcherThread, incomingMessages,
                   stopper, dpc, receiver, ret, sender, rxPending, loopThreads, recvd, delivered>>
    /\ cancelled' = FALSE                   \* the wake, if any, is taken

\* "if ( conn.second.outbox ) continue"
stillSendingNever(conn) == FALSE
stillSending(conn) == conn.outbox # NULL

\* "m.connectionId == 0 || m.connectionId == conn.first"
matchesAny(msg, id) == TRUE
matches(msg, id) == msg.connectionId = 0 \/ msg.connectionId = id

\* "while ( outgoingMessages.size() > 0 )" finds a message:
\* m = outgoingMessages.take(), and the for loop starts at begin()
loopTake ==
    /\ UNCHANGED <<qvars, lvars>>
    /\ pc = "drain"
    /\ size(outgoingMessages) > 0
    /\ LET r == takeAfterWait(outgoingMessages, TRUE, FALSE)
       IN /\ outgoingMessages' = r.q
          /\ m' = r.rv
          /\ busyAtTake' = {id \in DOMAIN wsConnections :
                               stillSending(wsConnections[id])}
    /\ it' = begin(wsConnections)
    /\ pc' = "fanout"
    /\ UNCHANGED <<keepWorking, serverThread, context, wsConnections,
                   connectionIdSeq, sess, nextSeq, assigned, wire, cut>>

\* a plausible slip: the test lets the loop thread through on an empty queue
hasOutgoingAlways(q) == size(q) >= 0

\* "while ( outgoingMessages.size() > 0 )"
hasOutgoing(q) == size(q) > 0

\* loopTake in two steps, as the code runs it: size() takes the mutex of the
\* queue and gives it back, and take() takes it again. loopSize is the test
\* "outgoingMessages.size() > 0" when it finds a message
loopSize ==
    /\ UNCHANGED <<qvars, lvars>>
    /\ pc = "drain"
    /\ hasOutgoing(outgoingMessages)
    /\ pc' = "take"
    /\ UNCHANGED <<keepWorking, serverThread, context, outgoingMessages,
                   wsConnections, connectionIdSeq, sess, m, it, nextSeq,
                   assigned, wire, cut, busyAtTake>>

\* "WSMessage m = outgoingMessages.take()": with the unblockCondition false
\* the loop thread waits in cv.wait; an interrupted queue throws
\* InterruptedException, which the catch of mainServerThread takes to the
\* cleanup; otherwise the head is removed and the for loop starts at begin()
loopTakeCall ==
    /\ UNCHANGED <<qvars, lvars>>
    /\ pc = "take"
    /\ IF ~takeUnblockCondition(outgoingMessages)
       THEN /\ pc' = "takewait"
            /\ UNCHANGED <<outgoingMessages, m, busyAtTake, it>>
       ELSE LET r == takeAfterWait(outgoingMessages, TRUE, FALSE)
            IN /\ outgoingMessages' = r.q
               /\ IF r.popped
                  THEN /\ m' = r.rv
                       /\ busyAtTake' = {id \in DOMAIN wsConnections :
                                            stillSending(wsConnections[id])}
                       /\ it' = begin(wsConnections)
                       /\ pc' = "fanout"
                  ELSE /\ pc' = "cleanup"
                       /\ UNCHANGED <<m, busyAtTake, it>>
    /\ UNCHANGED <<keepWorking, serverThread, context, wsConnections,
                   connectionIdSeq, sess, nextSeq, assigned, wire, cut>>

\* "while ( outgoingMessages.size() > 0 )" finds the queue empty: back to
\* the top of the main loop, "while ( n >= 0 && keepWorking )"
loopDrained ==
    /\ UNCHANGED <<qvars, lvars>>
    /\ pc = "drain"
    /\ size(outgoingMessages) = 0
    /\ pc' = loopTop(nsvc, keepWorking)
    /\ UNCHANGED <<keepWorking, serverThread, context, outgoingMessages,
                   wsConnections, connectionIdSeq, sess, m, it, nextSeq,
                   assigned, wire, cut, busyAtTake>>

\* one pass of the body of "for ( auto& conn : wsConnections )"
loopVisit ==
    /\ UNCHANGED <<qvars, lvars>>
    /\ pc = "fanout"
    /\ it \in DOMAIN wsConnections
    /\ LET conn == wsConnections[it]
           s == conn.wsi
       IN IF stillSending(conn)
          THEN /\ it' = next(wsConnections, it)                 \* continue
               /\ UNCHANGED <<wsConnections, assigned, wire, cut, pc>>
          ELSE IF matches(m, it)
          THEN /\ wsConnections' = [wsConnections EXCEPT ![it] =
                     [@ EXCEPT !.outbox = [seq |-> m.seq, dest |-> m.connectionId,
                                           msg |-> m.msg],
                               !.outpos = 0]]
               /\ assigned' = [assigned EXCEPT ![s] = m]
               /\ wire' = [wire EXCEPT ![s] = <<>>]
               /\ cut' = [cut EXCEPT ![s] =
                     @ \/ (wire[s] # <<>> /\ ~wire[s][Len(wire[s])].final)]
               /\ pc' = "flush"                       \* n = lws_service( context, 0 )
               /\ UNCHANGED it
          ELSE /\ it' = next(wsConnections, it)
               /\ UNCHANGED <<wsConnections, assigned, wire, cut, pc>>
    /\ UNCHANGED <<keepWorking, serverThread, context, outgoingMessages,
                   connectionIdSeq, sess, m, nextSeq, busyAtTake>>

\* the nested lws_service returns r and the for loop advances the iterator.
\* When a CLOSED callback erased the element the iterator stands on, ++it
\* reads a freed node: the iterator may then stand anywhere
flushReturn(r) ==
    /\ UNCHANGED qvars
    /\ pc = "flush"
    /\ NoPendingClose
    /\ nsvc' = r
    /\ it' \in IF it \in DOMAIN wsConnections
                THEN {next(wsConnections, it)}
                ELSE DOMAIN wsConnections \cup {End}
    /\ pc' = "fanout"
    /\ UNCHANGED <<keepWorking, serverThread, context, outgoingMessages,
                   wsConnections, connectionIdSeq, sess, m, nextSeq, assigned,
                   wire, cut, busyAtTake, config, userCallback,
                   msgDispatcherThread, incomingMessages, stopper, dpc, receiver,
                   ret, sender, rxPending, loopThreads, recvd, delivered>>
    /\ cancelled' = FALSE                   \* the wake, if any, is taken

\* the for loop is over: m goes out of scope
loopFanoutEnd ==
    /\ UNCHANGED <<qvars, lvars>>
    /\ pc = "fanout"
    /\ it = End
    /\ pc' = "drain"
    /\ m' = NoMessage
    /\ busyAtTake' = {}
    /\ UNCHANGED <<keepWorking, serverThread, context, outgoingMessages,
                   wsConnections, connectionIdSeq, sess, it, nextSeq,
                   assigned, wire, cut>>

\* the callbacks lws_service delivers, on the loop thread
svcESTABLISHED(s) ==
    /\ UNCHANGED <<qvars, config, userCallback, msgDispatcherThread,
                   incomingMessages, nsvc, stopper, dpc, receiver, ret, sender, rxPending,
                   loopThreads, delivered>>
    /\ InService
    /\ NoPendingClose
    /\ \/ connectionIdSeq <= MaxConnSeq
       \/ Cardinality(DOMAIN wsConnections) >= MAX_CLIENTS
    /\ ESTABLISHED(s, Uint32)
    /\ UNCHANGED <<keepWorking, serverThread, context, outgoingMessages, pc, m,
                   it, nextSeq, busyAtTake>>
    /\ UNCHANGED cancelled

svcCLOSED(s) ==
    /\ UNCHANGED <<qvars, config, userCallback, msgDispatcherThread,
                   incomingMessages, nsvc, stopper, dpc, receiver, ret, sender, rxPending,
                   loopThreads, delivered>>
    /\ InService
    /\ NoOtherPendingClose(s)
    /\ CLOSED(s, Uint32)
    /\ UNCHANGED <<keepWorking, serverThread, context, outgoingMessages, pc, m,
                   it, nextSeq, busyAtTake>>
    /\ UNCHANGED cancelled

svcWRITEABLE(s) ==
    /\ UNCHANGED <<qvars, lvars>>
    /\ InService
    /\ NoPendingClose
    /\ WRITEABLE(s)
    /\ UNCHANGED <<keepWorking, serverThread, context, outgoingMessages, pc, m,
                   it, nextSeq, busyAtTake>>

(***************************************************************************)
(* Webserver: the inbound queue and the threads that wait on it            *)
(***************************************************************************)
\* WSMessage msg( connection->id, connection->inbox )
InMessage(id, inbox) == [seq |-> 0, connectionId |-> id, msg |-> inbox]

\* the threads inside a cv.wait of incomingMessages
Waiters ==
    (IF dpc = "blocked" THEN {"dispatcher"} ELSE {})
        \cup (IF receiver.st = "blocked" THEN {"receiver"} ELSE {})

\* cv.notify_all() of incomingMessages
notifyAllIn ==
    /\ dpc' = IF dpc = "blocked" THEN "ready" ELSE dpc
    /\ receiver' = IF receiver.st = "blocked" THEN [receiver EXCEPT !.st = "ready"]
                   ELSE receiver

\* cv.notify_one() of incomingMessages: any one waiter wakes
notifyOneIn ==
    \E w \in IF Waiters = {} THEN {"nobody"} ELSE Waiters :
        /\ dpc' = IF w = "dispatcher" THEN "ready" ELSE dpc
        /\ receiver' = IF w = "receiver" THEN [receiver EXCEPT !.st = "ready"]
                       ELSE receiver

\* "if ( first ) connection->inbox.clear(); connection->inbox.append( in, len )"
inboxKept(inbox, first, in) == inbox \o in
inboxAfter(inbox, first, in) == (IF first THEN <<>> ELSE inbox) \o in

\* a plausible slip: a full queue gives up its oldest message for the new one
offerDisplaces(q, item) == push_back(pop_front(q), item)

\* offer( item, timeoutMsec ): "if ( timeout || interrupted ) return false",
\* nothing is pushed
offerTimedOut(q, item) == q

\* LWS_CALLBACK_RECEIVE: incomingMessages.offer( msg, 0 ) with the mutex held
\* and the queue q; the loop thread then goes on at pc value back
rxOffer(q, msg, back, expired) ==
    IF offerUnblockCondition(q)
    THEN LET r == offerAfterWait(q, msg, TRUE)
         IN /\ incomingMessages' = r.q
            /\ IF r.pushed THEN notifyOneIn ELSE UNCHANGED <<dpc, receiver>>
            /\ pc' = back
            /\ rxPending' = NoRx
    ELSE /\ incomingMessages' = IF expired THEN offerTimedOut(q, msg) ELSE q
         /\ UNCHANGED <<dpc, receiver>>
         /\ IF expired
            THEN pc' = back /\ rxPending' = NoRx       \* false: the message is discarded
            ELSE pc' = "rxwait" /\ rxPending' = [msg |-> msg, pc |-> back]

\* LWS_CALLBACK_RECEIVE for session s with a fragment of one byte; first and
\* final are what lws_is_first_fragment and lws_is_final_fragment return
RECEIVE(s, first, final) ==
    /\ sess[s].st = "open"
    /\ sess[s].conn \in DOMAIN wsConnections
    /\ LET connection == wsConnections[sess[s].conn]
           in == <<<<s, Len(recvd[s]) + 1>>>>
           inbox == inboxAfter(connection.inbox, first, in)
       IN /\ wsConnections' = [wsConnections EXCEPT ![sess[s].conn].inbox = inbox]
          /\ recvd' = [recvd EXCEPT ![s] =
                          Append(@, [first |-> first, final |-> final, data |-> in])]
          /\ IF final
             THEN rxOffer(offerEntry(incomingMessages),
                          InMessage(connection.id, inbox), pc, FALSE)
             ELSE UNCHANGED <<incomingMessages, dpc, receiver, pc, rxPending>>

\* the fragments the open sessions have received
RECURSIVE Received(_)
Received(S) ==
    IF S = {} THEN 0
    ELSE LET s == CHOOSE x \in S : TRUE
         IN Len(recvd[s]) + Received(S \ {s})

svcRECEIVE(s) ==
    /\ InService
    /\ NoPendingClose
    /\ Received(Sessions) < MaxFrags
    /\ \E first \in BOOLEAN, final \in BOOLEAN : RECEIVE(s, first, final)
    /\ UNCHANGED <<qvars, keepWorking, serverThread, context, connectionIdSeq,
                   sess, outvars, config, userCallback, msgDispatcherThread,
                   nsvc, stopper, ret, loopThreads, delivered, sender>>
    /\ UNCHANGED cancelled

\* LWS_CALLBACK_RECEIVE: back from the wait_for of offer( msg, 0 ) with the
\* mutex held; the time is up
rxWake ==
    /\ pc = "rxwait"
    /\ rxOffer(incomingMessages, rxPending.msg, rxPending.pc, TRUE)
    /\ UNCHANGED <<qvars, keepWorking, serverThread, context, connvars, outvars,
                   config, userCallback, msgDispatcherThread, nsvc, stopper,
                   ret, loopThreads, recvd, delivered, sender>>
    /\ UNCHANGED cancelled

(***************************************************************************)
(* Webserver: mainDispatcherThread                                         *)
(***************************************************************************)
\* incomingMessages.take(): the dispatcher has the mutex. An interrupted
\* take throws InterruptedException, which the outer catch takes to the head
\* of the loop; otherwise the message is removed and passed to userCallback
dispatcherTake ==
    IF takeUnblockCondition(incomingMessages)
    THEN LET r == takeAfterWait(incomingMessages, TRUE, FALSE)
         IN /\ incomingMessages' = r.q
            /\ dpc' = IF r.popped THEN "callback" ELSE "loop"
            /\ delivered' = IF r.popped THEN r.rv ELSE delivered
            /\ receiver' = IF r.popped /\ receiver.st = "blocked"
                           THEN [receiver EXCEPT !.st = "ready"]      \* notify_all
                           ELSE receiver
    ELSE /\ dpc' = "blocked"
         /\ UNCHANGED <<incomingMessages, delivered, receiver>>

\* "while ( keepWorking && userCallback )", then take()
dispatcherLoop ==
    /\ dpc = "loop"
    /\ ~ProcessDied
    /\ IF keepWorking /\ userCallback
       THEN dispatcherTake
       ELSE /\ dpc' = "exited"
            /\ UNCHANGED <<incomingMessages, delivered, receiver>>
    /\ UNCHANGED <<qvars, wvars, config, userCallback, msgDispatcherThread, nsvc,
                   stopper, ret, loopThreads, recvd, sender, rxPending>>
    /\ UNCHANGED cancelled

\* take(): the dispatcher is back from cv.wait with the mutex held
dispatcherWake ==
    /\ dpc = "ready"
    /\ ~ProcessDied
    /\ dispatcherTake
    /\ UNCHANGED <<qvars, wvars, config, userCallback, msgDispatcherThread, nsvc,
                   stopper, ret, loopThreads, recvd, sender, rxPending>>
    /\ UNCHANGED cancelled

\* what can leave userCallback( m.connectionId, m.msg ): "catch ( const
\* std::exception& e2 )" takes an exception derived from std::exception; any
\* other thrown object leaves the thread function, and std::terminate ends
\* the process
CallbackOutcomes == {"returns", "throws", "throwsOther"}
catches(outcome) == outcome # "throwsOther"

\* userCallback( m.connectionId, m.msg ) is over
dispatcherCallback(outcome) ==
    /\ dpc = "callback"
    /\ ~ProcessDied
    /\ IF outcome = "returns" \/ catches(outcome)
       THEN dpc' = "loop" /\ UNCHANGED pc
       ELSE dpc' = "crashed" /\ pc' = "crashed"
    /\ delivered' = NoMessage                             \* m goes out of scope
    /\ UNCHANGED <<qvars, keepWorking, serverThread, context, connvars, outvars,
                   config, userCallback, msgDispatcherThread, incomingMessages,
                   nsvc, stopper, receiver, ret, loopThreads, recvd, sender,
                   rxPending>>
    /\ UNCHANGED cancelled

(***************************************************************************)
(* Webserver: receiveMessage                                               *)
(***************************************************************************)
\* "userCallback ? nullopt : incomingMessages.take( timeoutMsec )"
returnsNulloptNever(cb) == FALSE
returnsNullopt(cb) == cb

\* incomingMessages.take( timeoutMsec ): the caller has the mutex and the
\* unblockCondition is true
receiveTake ==
    LET r == takeAfterWait(incomingMessages, TRUE, TRUE)
    IN /\ incomingMessages' = r.q
       /\ ret' = Result("receiveMessage", r.rk, IF r.popped THEN r.rv ELSE NoMessage)
       /\ receiver' = NoReceive
       /\ dpc' = IF r.popped /\ dpc = "blocked" THEN "ready" ELSE dpc   \* notify_all

\* receiveMessage( timeoutMsec ): the call
receiveMessage(timeoutMsec) ==
    /\ ~ProcessDied
    /\ receiver.st = "idle"
    /\ IF returnsNullopt(userCallback)
       THEN /\ ret' = Result("receiveMessage", "empty", NoMessage)
            /\ UNCHANGED <<incomingMessages, receiver, dpc>>
       ELSE IF timeoutMsec = 0 /\ isEmpty(incomingMessages)         \* fail fast
       THEN /\ ret' = Result("receiveMessage", "empty", NoMessage)
            /\ UNCHANGED <<incomingMessages, receiver, dpc>>
       ELSE IF takeUnblockCondition(incomingMessages)
       THEN receiveTake
       ELSE /\ receiver' = [st |-> "blocked"]
            /\ UNCHANGED <<incomingMessages, ret, dpc>>
    /\ UNCHANGED <<qvars, wvars, config, userCallback, msgDispatcherThread, nsvc,
                   stopper, loopThreads, recvd, delivered, sender, rxPending>>
    /\ UNCHANGED cancelled

\* the time of receiveMessage's wait_for is up
receiveTimeout ==
    /\ receiver.st = "blocked"
    /\ receiver' = [st |-> "expired"]
    /\ UNCHANGED <<qvars, wvars, config, userCallback, msgDispatcherThread,
                   incomingMessages, nsvc, stopper, dpc, ret, loopThreads, recvd,
                   delivered, sender, rxPending>>
    /\ UNCHANGED cancelled

\* receiveMessage: back from cv.wait_for with the mutex held
receiveWake ==
    /\ ~ProcessDied
    /\ receiver.st \in {"ready", "expired"}
    /\ IF takeUnblockCondition(incomingMessages)
       THEN receiveTake
       ELSE /\ IF receiver.st = "expired"
               THEN /\ ret' = Result("receiveMessage", "empty", NoMessage)
                    /\ receiver' = NoReceive
               ELSE /\ receiver' = [st |-> "blocked"]
                    /\ UNCHANGED ret
            /\ UNCHANGED <<incomingMessages, dpc>>
    /\ UNCHANGED <<qvars, wvars, config, userCallback, msgDispatcherThread, nsvc,
                   stopper, loopThreads, recvd, delivered, sender, rxPending>>
    /\ UNCHANGED cancelled

(***************************************************************************)
(* Webserver: the end of mainServerThread, and stop()                      *)
(***************************************************************************)
\* "if ( context != nullptr ) lws_context_destroy( context )": the engine
\* closes every session, with LWS_CALLBACK_CLOSED for each
destroyContext ==
    /\ pc = "cleanup"
    /\ pc' = "reset"
    /\ IF context
       THEN /\ wsConnections' =
                  [k \in DOMAIN wsConnections \ {sess[s].conn : s \in Sessions}
                      |-> wsConnections[k]]
            /\ sess' = [s \in Sessions |-> NoSession]
            /\ assigned' = [s \in Sessions |-> NoMessage]
            /\ wire' = [s \in Sessions |-> <<>>]
            /\ cut' = [s \in Sessions |-> FALSE]
            /\ recvd' = [s \in Sessions |-> <<>>]
       ELSE UNCHANGED <<wsConnections, sess, assigned, wire, cut, recvd>>
    /\ UNCHANGED <<qvars, keepWorking, serverThread, context, outgoingMessages,
                   connectionIdSeq, m, it, nextSeq, busyAtTake, config,
                   userCallback, msgDispatcherThread, incomingMessages, nsvc,
                   stopper, dpc, receiver, ret, loopThreads, delivered, sender,
                   rxPending>>
    /\ cancelled' = FALSE                   \* the event pipe goes with the context

\* "context = nullptr; keepWorking = false;" and, if there is a dispatcher
\* thread, incomingMessages.interrupt(); without one the thread function
\* returns
resetContext ==
    /\ pc = "reset"
    /\ context' = FALSE
    /\ keepWorking' = FALSE
    /\ IF msgDispatcherThread
       THEN /\ incomingMessages' = setInterrupted(incomingMessages)
            /\ notifyAllIn
            /\ pc' = "join"
            /\ UNCHANGED loopThreads
       ELSE /\ pc' = "exited"
            /\ loopThreads' = loopThreads - 1
            /\ UNCHANGED <<incomingMessages, dpc, receiver>>
    /\ UNCHANGED <<qvars, serverThread, connvars, outvars, config, userCallback,
                   msgDispatcherThread, nsvc, stopper, ret, recvd, delivered,
                   sender, rxPending>>
    /\ UNCHANGED cancelled

\* "msgDispatcherThread->join(); delete msgDispatcherThread;
\* msgDispatcherThread = nullptr;" and the thread function returns
joinDispatcher ==
    /\ pc = "join"
    /\ dpc = "exited"
    /\ msgDispatcherThread' = FALSE
    /\ dpc' = "none"
    /\ pc' = "exited"
    /\ loopThreads' = loopThreads - 1
    /\ UNCHANGED <<qvars, keepWorking, serverThread, context, connvars, outvars,
                   config, userCallback, incomingMessages, nsvc, stopper,
                   receiver, ret, recvd, delivered, sender, rxPending>>
    /\ UNCHANGED cancelled

\* stop(): "if ( serverThread == nullptr ) return"
stopReturns(thread) == ~thread

\* stop(): the call, up to "keepWorking = false"
stop ==
    /\ ~ProcessDied
    /\ stopper = "none"
    /\ IF stopReturns(serverThread)
       THEN UNCHANGED <<keepWorking, stopper>>
       ELSE /\ keepWorking' = FALSE
            /\ stopper' = "interrupt"
    /\ UNCHANGED <<qvars, serverThread, context, connvars, outvars, pc, invars,
                   config, userCallback, msgDispatcherThread, nsvc, ret,
                   loopThreads, sender>>
    /\ UNCHANGED cancelled

\* stop(): interrupt() tests "context != nullptr"
stopInterrupt ==
    /\ ~ProcessDied
    /\ stopper = "interrupt"
    /\ stopper' = IF context THEN "cancel" ELSE "join"
    /\ UNCHANGED <<qvars, wvars, config, userCallback, msgDispatcherThread,
                   incomingMessages, nsvc, dpc, receiver, ret, loopThreads, recvd,
                   delivered, sender, rxPending>>
    /\ UNCHANGED cancelled

\* stop(): interrupt() calls lws_cancel_service( context ). On a context that
\* lws_context_destroy has freed the call reads freed memory: it may return,
\* and it may bring the process down (died)
stopCancel(died) ==
    /\ ~ProcessDied
    /\ stopper = "cancel"
    /\ died => ~contextLive
    /\ stopper' = IF died THEN "crashed" ELSE "join"
    /\ pc' = IF died THEN "crashed" ELSE pc
    /\ UNCHANGED <<qvars, keepWorking, serverThread, context, connvars, outvars,
                   config, userCallback, msgDispatcherThread, incomingMessages,
                   nsvc, dpc, receiver, ret, loopThreads, recvd, delivered,
                   sender, rxPending>>
    /\ cancelled' = (cancelled \/ (~died /\ contextLive))

\* stop(): "serverThread->join(); delete serverThread; serverThread = nullptr";
\* a stop() that the user callback called returns into the callback
stopJoin ==
    /\ stopper = "join"
    /\ pc = "exited"
    /\ serverThread' = FALSE
    /\ pc' = "none"
    /\ stopper' = "none"
    /\ dpc' = IF dpc = "stop" THEN "callback" ELSE dpc
    /\ UNCHANGED <<qvars, keepWorking, context, connvars, outvars, config,
                   userCallback, msgDispatcherThread, incomingMessages, nsvc,
                   receiver, ret, loopThreads, recvd, delivered, sender,
                   rxPending>>
    /\ UNCHANGED cancelled

\* userCallback( m.connectionId, m.msg ) calls stop(): the dispatcher thread
\* runs stop() up to "keepWorking = false", and goes on inside stop() with
\* stopInterrupt, stopCancel and stopJoin
dispatcherCallbackStop ==
    /\ dpc = "callback"
    /\ ~ProcessDied
    /\ stopper = "none"
    /\ IF stopReturns(serverThread)
       THEN UNCHANGED <<keepWorking, stopper, dpc>>
       ELSE /\ keepWorking' = FALSE
            /\ stopper' = "interrupt"
            /\ dpc' = "stop"
    /\ UNCHANGED <<qvars, serverThread, context, connvars, outvars, pc,
                   incomingMessages, receiver, recvd, delivered, rxPending,
                   config, userCallback, msgDispatcherThread, nsvc, ret,
                   loopThreads, sender>>
    /\ UNCHANGED cancelled

\* the queue of SpecQueue is not part of the web server
QueueUnused ==
    /\ cq = ConcurrentQueue(0)
    /\ th = [t \in Threads |-> NoCall]
    /\ nextItem = 1
    /\ offered = <<>>
    /\ taken = <<>>
    /\ last = NoReturn

Init == InitServer /\ QueueUnused


\* Spec: the server is given one valid configuration, the engine does not
\* fail and the server is not stopped. The context then lives for ever:
\* sendMessage's call of lws_cancel_service is taken together with its test
\* of context. outgoingMessages never fills.
Next ==
    \/ setConfig("localhost", "www", 80)
    \/ start
    \/ \E len \in MsgLens, destId \in Dests : sendMessage(len, destId, FALSE)
    \/ createContext(TRUE)
    \/ createVhosts(TRUE)
    \/ serviceReturn(0)
    \/ loopTake
    \/ loopDrained
    \/ loopVisit
    \/ flushReturn(0)
    \/ loopFanoutEnd
    \/ \E s \in Sessions : svcESTABLISHED(s)
    \/ \E s \in Sessions : svcCLOSED(s)
    \/ \E s \in Sessions : svcWRITEABLE(s)

Spec == Init /\ [][Next]_vars

(***************************************************************************)
(* The connection table with a connectionIdSeq of IdBits bits              *)
(***************************************************************************)
idsESTABLISHED(s) ==
    /\ UNCHANGED <<qvars, config, userCallback, msgDispatcherThread,
                   incomingMessages, nsvc, stopper, dpc, receiver, ret, sender, rxPending,
                   loopThreads, delivered>>
    /\ NoPendingClose
    /\ ESTABLISHED(s, IdBits)
    /\ UNCHANGED <<keepWorking, serverThread, context, outgoingMessages, pc, m,
                   it, nextSeq, busyAtTake>>
    /\ UNCHANGED cancelled

idsCLOSED(s) ==
    /\ UNCHANGED <<qvars, config, userCallback, msgDispatcherThread,
                   incomingMessages, nsvc, stopper, dpc, receiver, ret, sender, rxPending,
                   loopThreads, delivered>>
    /\ NoOtherPendingClose(s)
    /\ CLOSED(s, IdBits)
    /\ UNCHANGED <<keepWorking, serverThread, context, outgoingMessages, pc, m,
                   it, nextSeq, busyAtTake>>
    /\ UNCHANGED cancelled

NextIds ==
    \/ \E s \in Sessions : idsESTABLISHED(s)
    \/ \E s \in Sessions : idsCLOSED(s)

SpecIds == Init /\ [][NextIds]_vars

(***************************************************************************)
(* The lifecycle: configuration, start() and stop(), an engine that may    *)
(* fail, and a callback that may throw. No client connects. The program    *)
(* begins either right after construction, or after an earlier run in      *)
(* which one client sent one message that nobody received (the message is  *)
(* still on the inbound queue) and after which the configuration was set   *)
(* back; the callback may be registered already. outgoingMessages has room *)
(* for LifeOutCapacity messages.                                           *)
(***************************************************************************)
\* the arguments the configuration calls are given
Hostnames == {"localhost"}
WebDirs == {"www", "nowhere"}
Ports == {0 - 1, 80}
CertPaths == {"cert", "nocert"}

\* the messages the inbound queue holds at the beginning
Backlog == {<<>>, <<InMessage(1, <<<<1, 1>>>>)>>}

InitLife ==
    /\ QueueUnused
    /\ \E b \in Backlog :
          /\ incomingMessages = [ConcurrentQueue(InCapacity) EXCEPT !.items = b]
          /\ connectionIdSeq = 1 + Len(b)
    /\ \E cb \in BOOLEAN : userCallback = cb
    /\ keepWorking = FALSE
    /\ serverThread = FALSE
    /\ context = FALSE
    /\ outgoingMessages = ConcurrentQueue(LifeOutCapacity)
    /\ config = NoConfig
    /\ msgDispatcherThread = FALSE
    /\ nsvc = 0
    /\ stopper = "none"
    /\ dpc = "none"
    /\ receiver = NoReceive
    /\ ret = NoResult
    /\ loopThreads = 0
    /\ recvd = [s \in Sessions |-> <<>>]
    /\ delivered = NoMessage
    /\ sender = NoSend
    /\ rxPending = NoRx
    /\ cancelled = FALSE
    /\ wsConnections = <<>>
    /\ sess = [s \in Sessions |-> NoSession]
    /\ pc = "none"
    /\ m = NoMessage
    /\ it = End
    /\ nextSeq = 1
    /\ assigned = [s \in Sessions |-> NoMessage]
    /\ wire = [s \in Sessions |-> <<>>]
    /\ cut = [s \in Sessions |-> FALSE]
    /\ busyAtTake = {}

NextLife ==
    \/ \E h \in Hostnames, w \in WebDirs, p \in Ports : setConfig(h, w, p)
    \/ \E p \in Ports, c \in CertPaths : setConfigSSL(p, c, "key")
    \/ start
    \/ stop
    \/ stopInterrupt
    \/ \E died \in BOOLEAN : stopCancel(died)
    \/ stopJoin
    \/ \E slow \in BOOLEAN : sendMessage(1, 0, slow)
    \/ \E slow \in BOOLEAN : sendMessageWake(slow)
    \/ \E died \in BOOLEAN : sendCancel(died)
    \/ \E ok \in BOOLEAN : createContext(ok)
    \/ \E ok \in BOOLEAN : createVhosts(ok)
    \/ \E r \in {0 - 1, 0} : serviceReturn(r)
    \/ loopTake
    \/ loopDrained
    \/ loopFanoutEnd
    \/ destroyContext
    \/ resetContext
    \/ joinDispatcher
    \/ dispatcherLoop
    \/ dispatcherWake
    \/ \E outcome \in CallbackOutcomes : dispatcherCallback(outcome)

SpecLife == InitLife /\ [][NextLife]_vars

(***************************************************************************)
(* The inbound side: clients connect, send fragments and close; the        *)
(* callback is registered at any time, before or after start(), and stays; *)
(* the program polls with receiveMessage. The engine does not fail, the   *)
(* server is not stopped, nothing is sent, and the loop thread stays in    *)
(* its first lws_service.                                                  *)
(***************************************************************************)
NextInbound ==
    \/ setMessageCallback(TRUE)
    \/ setConfig("localhost", "www", 80)
    \/ start
    \/ createContext(TRUE)
    \/ createVhosts(TRUE)
    \/ \E s \in Sessions : connectionIdSeq <= MaxInConns /\ svcESTABLISHED(s)
    \/ \E s \in Sessions : svcCLOSED(s)
    \/ \E s \in Sessions : svcRECEIVE(s)
    \/ rxWake
    \/ dispatcherLoop
    \/ dispatcherWake
    \/ dispatcherCallback("returns")
    \/ \E timeoutMsec \in Timeouts : receiveMessage(timeoutMsec)
    \/ receiveTimeout
    \/ receiveWake

SpecInbound == Init /\ [][NextInbound]_vars

(***************************************************************************)
(* Runs that follow one another: the callback is registered and removed,   *)
(* the server is started and stopped any number of times, one client       *)
(* connects and sends messages, the dispatcher thread passes them to a     *)
(* callback that returns or calls stop(), and receiveMessage is called.    *)
(* The engine does not fail.                                               *)
(***************************************************************************)
NextRestart ==
    \/ \E cb \in BOOLEAN : setMessageCallback(cb)
    \/ setConfig("localhost", "www", 80)
    \/ start
    \/ stop
    \/ stopInterrupt
    \/ \E died \in BOOLEAN : stopCancel(died)
    \/ stopJoin
    \/ createContext(TRUE)
    \/ createVhosts(TRUE)
    \/ serviceReturn(0)
    \/ loopDrained
    \/ \E s \in Sessions : connectionIdSeq <= MaxInConns /\ svcESTABLISHED(s)
    \/ \E s \in Sessions : svcRECEIVE(s)
    \/ rxWake
    \/ destroyContext
    \/ resetContext
    \/ joinDispatcher
    \/ dispatcherLoop
    \/ dispatcherWake
    \/ dispatcherCallback("returns")
    \/ dispatcherCallbackStop
    \/ \E timeoutMsec \in Timeouts : receiveMessage(timeoutMsec)
    \/ receiveTimeout
    \/ receiveWake

SpecRestart == Init /\ [][NextRestart]_vars

(***************************************************************************)
(* The outbound queue between sendMessage callers and the loop thread,     *)
(* with the loop thread's size() test and its take() as separate steps.    *)
(* The server is started and stopped; no client connects, so that every    *)
(* fan-out ends at once.                                                   *)
(***************************************************************************)
InitDrain == Constructed(LifeOutCapacity) /\ QueueUnused

NextDrain ==
    \/ setConfig("localhost", "www", 80)
    \/ start
    \/ stop
    \/ stopInterrupt
    \/ \E died \in BOOLEAN : stopCancel(died)
    \/ stopJoin
    \/ \E len \in MsgLens, slow \in BOOLEAN : sendMessage(len, 0, slow)
    \/ \E slow \in BOOLEAN : sendMessageWake(slow)
    \/ \E died \in BOOLEAN : sendCancel(died)
    \/ createContext(TRUE)
    \/ createVhosts(TRUE)
    \/ serviceReturn(0)
    \/ loopSize
    \/ loopTakeCall
    \/ loopDrained
    \/ loopFanoutEnd
    \/ destroyContext
    \/ resetContext

SpecDrain == InitDrain /\ [][NextDrain]_vars

(***************************************************************************)
(* The wake of the loop thread. The server is started and never stopped,   *)
(* the engine does not fail and no client connects: the engine has nothing *)
(* to report, and its lws_service call returns only when it is woken with  *)
(* lws_cancel_service. sendMessage is called while isRunning() is true,    *)
(* and its test of context and its call of lws_cancel_service are separate *)
(* steps.                                                                  *)
(***************************************************************************)
\* "n = lws_service( context, 0 )" returns for a wake
serviceWake == cancelled /\ serviceReturn(0)

\* isRunning(): "return keepWorking"
isRunning == keepWorking

NextWake ==
    \/ setConfig("localhost", "www", 80)
    \/ start
    \/ \E len \in MsgLens : isRunning /\ sendMessage(len, 0, TRUE)
    \/ sendMessageWake(TRUE)
    \/ \E died \in BOOLEAN : sendCancel(died)
    \/ createContext(TRUE)
    \/ createVhosts(TRUE)
    \/ serviceWake
    \/ loopTake
    \/ loopDrained
    \/ loopFanoutEnd

SpecWake == InitDrain /\ [][NextWake]_vars

(***************************************************************************)
(* Webserver: the claims about outbound delivery, checked under Spec       *)
(***************************************************************************)
\* the bytes of a sequence of frames, in the order written
RECURSIVE Concat(_)
Concat(fr) == IF fr = <<>> THEN <<>> ELSE fr[1].data \o Concat(Tail(fr))

\* ceil( L / MAX_PAYLOAD ), and one chunk for an empty message
Chunks(L) == IF L = 0 THEN 1 ELSE (L + MAX_PAYLOAD - 1) \div MAX_PAYLOAD

\* session s is open and its connection has a pending outbox
Pending(s) ==
    /\ sess[s].st = "open"
    /\ wsConnections[sess[s].conn].outbox # NULL

\* C1 (as stated): a message dequeued while connection C had a pending
\* outbox is never assigned to C afterwards.
C1_NeverGivenToBusy ==
    \A id \in busyAtTake \cap DOMAIN wsConnections :
        wsConnections[id].outbox.seq # m.seq

\* C1 (amended): a pending outbox is never replaced. While connection C has
\* a pending outbox, a step either leaves C's payload and cursor as they are,
\* or it is C's own writable callback (the loop thread is inside lws_service
\* and a frame is written for C's session), which keeps the payload and moves
\* the cursor forward, or clears the outbox having written the final chunk
\* or a short write. Dequeuing and fanning out any message leaves C unchanged.
C1_PendingOutboxKept ==
    [][\A id \in DOMAIN wsConnections \cap DOMAIN wsConnections' :
          LET c == wsConnections[id]
              d == wsConnections'[id]
              s == c.wsi
          IN (c.outbox # NULL /\ d # c) =>
                /\ InService /\ sess[s].st = "open" /\ sess[s].conn = id
                /\ pc' = pc /\ Len(wire'[s]) = Len(wire[s]) + 1
                /\ \/ d.outbox = c.outbox /\ d.outpos > c.outpos
                   \/ /\ d.outbox = NULL
                      /\ LET f == wire'[s][Len(wire'[s])]
                         IN f.final \/ f.short ]_vars

\* C1 witness: the only connection there has ever been was sending an
\* earlier message when the loop thread dequeued a message for it; the fan-out
\* is over, and the connection is still sending the earlier message
C1_Witness ==
    /\ pc = "fanout" /\ it = End
    /\ connectionIdSeq = 2
    /\ busyAtTake = {1} /\ DOMAIN wsConnections = {1}
    /\ m.connectionId \in {0, 1}
    /\ wsConnections[1].outbox.seq \notin {0, m.seq}
    /\ wsConnections[1].outpos > 0

\* C2: for a session that is open (it never short-wrote), the frames of the
\* message assigned to it are, in order, a prefix of the message cut in
\* chunks of MAX_PAYLOAD; only the first has the first flag and only the
\* Chunks(L)-th the final flag; the outbox is cleared as soon as the final
\* chunk is written, and a message no longer pending was written completely,
\* in exactly Chunks(L) frames.
C2_ChunksComplete ==
    \A s \in Sessions : sess[s].st = "open" =>
        LET fr == wire[s]
            msg == assigned[s].msg
        IN IF assigned[s] = NoMessage
           THEN fr = <<>> /\ ~Pending(s)
           ELSE /\ Len(fr) <= Chunks(Len(msg))
                /\ Len(Concat(fr)) <= Len(msg)
                /\ Concat(fr) = SubSeq(msg, 1, Len(Concat(fr)))
                /\ \A i \in 1..Len(fr) :
                      /\ fr[i].first <=> (i = 1)
                      /\ fr[i].final <=> (i = Chunks(Len(msg)))
                      /\ Len(fr[i].data) <= MAX_PAYLOAD
                /\ Pending(s) <=> (Len(fr) < Chunks(Len(msg)))
                /\ ~Pending(s) => Concat(fr) = msg

\* C2 witness: a message of two full frames and a byte went out in three
\* frames and the outbox is clear again
C2_Witness ==
    \E s \in Sessions :
        /\ sess[s].st = "open" /\ ~Pending(s)
        /\ Len(assigned[s].msg) = 2 * MAX_PAYLOAD + 1
        /\ Len(wire[s]) = 3

\* C3: the frames written to a session carry the bytes of the message
\* assigned to it; no frame follows a final frame of the same message; the
\* first frame of a message is a first frame, and is written only if the
\* frame before it on that session was a final frame; a session is assigned
\* messages in the order sendMessage queued them, which is the order the
\* loop thread takes them in.
C3_OrderedNoInterleaving ==
    /\ [](\A s \in Sessions :
            /\ \A i \in 1..Len(wire[s]) :
                  /\ \A j \in 1..Len(wire[s][i].data) :
                        wire[s][i].data[j][1] = assigned[s].seq
                  /\ i < Len(wire[s]) => ~wire[s][i].final /\ ~wire[s][i + 1].first
            /\ wire[s] # <<>> =>
                  /\ assigned[s] # NoMessage
                  /\ wire[s][1].first
                  /\ ~cut[s])
    /\ [](\A i \in 1..size(outgoingMessages) :
            /\ outgoingMessages.items[i].seq > m.seq
            /\ i > 1 => outgoingMessages.items[i].seq > outgoingMessages.items[i - 1].seq)
    /\ [][\A s \in Sessions :
            assigned'[s] # assigned[s] =>
                \/ assigned'[s] = NoMessage
                \/ assigned'[s] = m /\ assigned[s].seq <= m.seq ]_vars

\* C3 witness: a connection was sending an earlier message when the loop
\* thread dequeued m, has finished it, was given m and has written more than
\* one frame of it
C3_Witness ==
    \E s \in Sessions :
        /\ sess[s].st = "open"
        /\ sess[s].conn \in busyAtTake
        /\ assigned[s] = m
        /\ Len(wire[s]) >= 2

\* C4 (as stated): a connection that was busy when the message was dequeued
\* receives nothing of that message.
C4_BusyReceivesNothing ==
    \A s \in Sessions :
        (sess[s].conn \in busyAtTake /\ assigned[s].seq = m.seq) => wire[s] = <<>>

\* C4 (amended): destination and idleness are tested when the loop visits
\* the connection. A visit gives the connection the message, with the cursor
\* at 0, if and only if the connection is then idle and the destination is 0
\* or its id, and changes no other connection; the dequeue itself changes no
\* connection; so a connection only ever holds a message addressed to it or
\* to everyone; and when the fan-out is over the message is dropped.
C4_DestinationAtVisit ==
    /\ [](\A id \in DOMAIN wsConnections :
            wsConnections[id].outbox # NULL =>
                wsConnections[id].outbox.dest \in {0, id})
    /\ [][(pc = "drain" /\ pc' = "fanout") => wsConnections' = wsConnections]_vars
    /\ [][(pc = "fanout" /\ pc' = "drain") =>
            (m' = NoMessage /\ wsConnections' = wsConnections)]_vars
    /\ [][(pc = "fanout" /\ (it' # it \/ pc' = "flush")) =>
            IF /\ wsConnections[it].outbox = NULL
               /\ (m.connectionId = 0 \/ m.connectionId = it)
            THEN wsConnections' = [wsConnections EXCEPT ![it] =
                    [@ EXCEPT !.outbox = [seq |-> m.seq, dest |-> m.connectionId,
                                          msg |-> m.msg],
                              !.outpos = 0]]
            ELSE wsConnections' = wsConnections ]_vars

\* C4 witness: of two live connections that have sent nothing yet, one was
\* given a message addressed to it alone and the other, idle, was not
C4_Witness ==
    /\ pc = "fanout" /\ it = End
    /\ m.connectionId = 1
    /\ busyAtTake = {}
    /\ DOMAIN wsConnections = {1, 2}
    /\ wsConnections[1].outbox.seq = m.seq
    /\ wsConnections[2].outbox = NULL
    /\ assigned[wsConnections[2].wsi] = NoMessage

(***************************************************************************)
(* Webserver: the claims about the connection table                        *)
(***************************************************************************)
\* C5: no two open sessions share a connection entry (two live connections
\* never have the same id), and no entry has id 0. Checked under SpecIds.
C5_UniqueIds ==
    /\ \A s, t \in Sessions :
          (s # t /\ sess[s].st = "open" /\ sess[t].st = "open") =>
              sess[s].conn # sess[t].conn
    /\ 0 \notin DOMAIN wsConnections

\* C6: the table never holds more than MAX_CLIENTS entries; an ESTABLISHED
\* event on a full table adds nothing and is rejected (the callback returns
\* -1); any other ESTABLISHED event adds exactly one entry. Checked under
\* SpecIds.
C6_ConnectionCap ==
    /\ [](Cardinality(DOMAIN wsConnections) <= MAX_CLIENTS)
    /\ [][\A s \in Sessions : (FreeSession(s) /\ idsESTABLISHED(s)) =>
            IF Cardinality(DOMAIN wsConnections) >= MAX_CLIENTS
            THEN wsConnections' = wsConnections /\ sess'[s].st = "rejected"
            ELSE /\ Cardinality(DOMAIN wsConnections') =
                       Cardinality(DOMAIN wsConnections) + 1
                 /\ sess'[s].st = "open" ]_vars

(***************************************************************************)
(* Webserver: the claims about the public calls and the lifecycle          *)
(***************************************************************************)
\* a sendMessage call appends its message in this step
SendAppends == nextSeq' = nextSeq + 1

\* C12: sendMessage never blocks and returns true exactly when the message
\* was appended to the tail of the outbound queue, false exactly when the
\* queue already held its capacity of messages, and then the queue is
\* unchanged; from any thread, whether or not the server is running. In
\* steps: a call that appends its message appends it at the tail and goes
\* on to return true (it returns in that step, or it is in its call of
\* lws_cancel_service, from which it returns true); a call that returns
\* without having appended returns false, the queue is full and it keeps
\* its items; a call is never inside an untimed wait. Checked under
\* SpecLife.
C12_SendMessageContract ==
    /\ [](sender.st \in {"idle", "expired", "cancel"})
    /\ [][/\ SendAppends =>
               /\ \E x \in {outgoingMessages'.items[Len(outgoingMessages'.items)]} :
                     /\ x.seq = nextSeq
                     /\ outgoingMessages'.items = Append(outgoingMessages.items, x)
               /\ sender' = NoSend \/ sender'.st = "cancel"
               /\ sender' = NoSend => ret' = Result("sendMessage", "true", NoMessage)
          /\ (sender.st = "cancel" /\ sender' # sender) =>
               /\ sender' = NoSend
               /\ ret' = Result("sendMessage", "true", NoMessage)
          /\ (sender.st = "expired" /\ sender' = NoSend /\ ~SendAppends) =>
               /\ ret' = Result("sendMessage", "false", NoMessage)
               /\ ~offerHasRoom(outgoingMessages)
               /\ outgoingMessages'.items = outgoingMessages.items
         ]_vars

\* C15: start() either spawns exactly one loop thread or changes nothing.
\* A step that adds a loop thread is made with no thread object
\* (serverThread is null) and a configuration that passes the three tests,
\* and it leaves one loop thread, serverThread set and isRunning() true;
\* there is never more than one loop thread; and with no thread object the
\* server is Stopped: no loop thread and isRunning() false. Checked under
\* SpecLife.
C15_StartSpawnsOneOrNothing ==
    /\ [](loopThreads <= 1)
    /\ [](~serverThread => (loopThreads = 0 /\ ~keepWorking))
    /\ [][loopThreads' > loopThreads =>
             /\ ~serverThread
             /\ ~startThrows(config)
             /\ loopThreads' = 1
             /\ serverThread'
             /\ keepWorking'
         ]_vars

\* a second loop thread was started after stop() had joined the first, and
\* start() has since been called with a thread object in place
C15_Witness ==
    /\ loopThreads = 1
    /\ serverThread
    /\ nsvc = 0
    /\ pc = "drain"
    /\ nextSeq > 1
    /\ incomingMessages.interrupted

\* C16: stop() terminates and, when it returns, the loop thread and the
\* dispatcher thread have exited and isRunning() is false. In steps: no step
\* of a stop() call ends the call without its return, and the step in which
\* it returns leaves no loop thread, no dispatcher thread and keepWorking
\* false. Checked under SpecLife.
C16_StopTerminates ==
    [][/\ stopper # "none" => stopper' # "crashed"
       /\ (stopper = "join" /\ stopper' = "none") =>
             /\ loopThreads' = 0
             /\ pc' = "none"
             /\ dpc' = "none"
             /\ ~msgDispatcherThread'
             /\ ~keepWorking'
      ]_vars

\* the loop thread has returned because lws_create_context or
\* lws_create_vhost failed: it never ran the main loop (n is 0) and nobody
\* has called stop()
EngineFailedExit == pc = "exited" /\ stopper = "none" /\ nsvc = 0

\* C17: after an engine construction failure the loop thread has exited,
\* the context is reset, isRunning() is false and the server is Stopped as it
\* was before start(): there is no thread object, so that start() spawns a
\* new loop thread. Checked under SpecLife.
C17_FailureRevertsToStopped ==
    EngineFailedExit => (~context /\ ~keepWorking /\ ~serverThread)

\* C18: setConfig and setConfigSSL called between a successful start() and
\* the completion of stop(), that is while there is a thread object, leave
\* every configuration field unchanged; and setConfigSSL with a missing
\* certificate or key file leaves the three SSL fields unchanged. Checked
\* under SpecLife.
C18_ConfigFrozenWhileRunning ==
    [][/\ serverThread => config' = config
       /\ config'.sslCertPath # config.sslCertPath => exists(config'.sslCertPath)
       /\ config'.sslKeyPath # config.sslKeyPath => exists(config'.sslKeyPath)
      ]_vars

\* C19: when the user callback raises an exception the dispatcher thread
\* and the loop thread keep running: the step that ends a callback takes the
\* dispatcher back to the head of its loop and leaves the loop thread where
\* it is. Checked under SpecLife.
C19_FailingCallbackKeepsDispatching ==
    [][(dpc = "callback" /\ dpc' # dpc) => (dpc' = "loop" /\ pc' = pc)]_vars

(***************************************************************************)
(* Webserver: the claims about the inbound side                            *)
(***************************************************************************)
\* a receiveMessage call is made and returns in this step
ReceiveReturnsAtOnce ==
    /\ receiver.st = "idle"
    /\ receiver'.st = "idle"
    /\ ret'.op = "receiveMessage"
    /\ ret' # ret

\* C13: a receiveMessage call made while a message callback is registered
\* returns an empty value without waiting and without removing anything from
\* the inbound queue, for every timeout and every queue content: the caller
\* never enters the wait, and the call changes nothing but its result.
\* Checked under SpecInbound.
C13_ReceiveEmptyInCallbackMode ==
    [][userCallback =>
          /\ (receiver.st = "idle" => receiver'.st = "idle")
          /\ ReceiveReturnsAtOnce =>
                /\ ret'.rk = "empty"
                /\ ret'.msg = NoMessage
                /\ incomingMessages' = incomingMessages
                /\ dpc' = dpc
      ]_vars

\* a call was answered with an empty value while a callback was registered
\* and a message was on the inbound queue
C13_Witness ==
    /\ userCallback
    /\ ret = Result("receiveMessage", "empty", NoMessage)
    /\ receiver.st = "idle"
    /\ incomingMessages.items # <<>>
    /\ dpc = "none"

\* C14: callback mode bypasses the inbound queue: while a message callback
\* is registered inbound traffic leaves the contents of the inbound queue
\* unchanged. Checked under SpecInbound.
C14_QueueBypassedInCallbackMode ==
    [][userCallback => incomingMessages'.items = incomingMessages.items]_vars

\* the payload of the message LWS_CALLBACK_RECEIVE completes with the last
\* fragment of log: the fragments from the most recent one flagged first (from
\* the first one received when none is flagged), in arrival order
RECURSIVE Reassembled(_)
Reassembled(log) ==
    IF log = <<>> THEN <<>>
    ELSE LET f == log[Len(log)]
         IN IF f.first THEN f.data
            ELSE Reassembled(SubSeq(log, 1, Len(log) - 1)) \o f.data

\* session s receives a fragment in this step
Receives(s) == Len(recvd'[s]) = Len(recvd[s]) + 1

\* the message the loop thread completes in this step, if session s
\* receives a final fragment
Completed(s) == InMessage(sess[s].conn, Reassembled(recvd'[s]))

\* C14, amended: in callback mode a completed inbound message is placed on
\* the inbound queue like in poll mode. While a callback is registered, a
\* step changes the contents of the inbound queue only by appending the
\* message a session has just completed, or by removing the head, which
\* goes to the dispatcher thread to be passed to the callback or to a
\* receiveMessage call that was waiting since before the callback was
\* registered; and the dispatcher thread enters the callback only with the
\* message it has removed from the head of the queue. Checked under
\* SpecInbound.
C14_QueueFeedsDispatcher ==
    [][userCallback =>
          \/ incomingMessages'.items = incomingMessages.items
          \/ \E s \in Sessions :
                /\ (Receives(s) \/ rxPending.msg = Completed(s))
                /\ incomingMessages'.items =
                      Append(incomingMessages.items, Completed(s))
          \/ /\ incomingMessages.items # <<>>
             /\ incomingMessages'.items = Tail(incomingMessages.items)
             /\ \/ /\ dpc \in {"loop", "ready"}
                   /\ dpc' = "callback"
                   /\ delivered' = Head(incomingMessages.items)
                \/ /\ receiver.st \in {"ready", "expired"}
                   /\ ret' = Result("receiveMessage", "item",
                                    Head(incomingMessages.items))
      ]_vars
    /\ [][(dpc # "callback" /\ dpc' = "callback") =>
              /\ incomingMessages.items # <<>>
              /\ delivered' = Head(incomingMessages.items)
              /\ incomingMessages'.items = Tail(incomingMessages.items)
         ]_vars

\* the dispatcher thread is running the callback on a message of two
\* fragments that went through the inbound queue
C14_Witness ==
    /\ userCallback
    /\ dpc = "callback"
    /\ Len(delivered.msg) = 2
    /\ incomingMessages.items = <<>>

C21_FullQueueAlwaysDrops ==
    [][(pc = "rxwait" /\ pc' # "rxwait") =>
           incomingMessages'.items = incomingMessages.items]_vars

\* C21, amended: a completed inbound message that finds the inbound queue
\* full is held by the loop thread inside offer( msg, 0 ), whose wait of zero
\* length releases the queue's mutex once. When the loop thread has the mutex
\* again it tests the queue a second time: if the queue is still full the
\* message is discarded and the queue contents are unchanged; if a consumer
\* has removed a message in between, the message is appended at the tail.
\* Either way the callback ends at once (the loop thread never waits for
\* space: its next step needs nothing from the queue), the loop thread is
\* back where the engine called it, and every connection stays in the table
\* with its session open. Checked under SpecInbound.
C21_FullQueueDropsUnlessRoom ==
    /\ [][(pc # "rxwait" /\ pc' = "rxwait") =>
              /\ ~offerHasRoom(incomingMessages)
              /\ incomingMessages'.items = incomingMessages.items
              /\ \E s \in Sessions : Receives(s) /\ rxPending'.msg = Completed(s)
              /\ rxPending'.pc = pc
              /\ sess' = sess
              /\ DOMAIN wsConnections' = DOMAIN wsConnections
         ]_vars
    /\ [][(pc = "rxwait" /\ pc' # "rxwait") =>
              /\ incomingMessages'.items =
                    IF offerHasRoom(incomingMessages)
                    THEN Append(incomingMessages.items, rxPending.msg)
                    ELSE incomingMessages.items
              /\ pc' = rxPending.pc
              /\ rxPending' = NoRx
              /\ sess' = sess
              /\ wsConnections' = wsConnections
         ]_vars
    /\ [](pc = "rxwait" => ENABLED rxWake)

\* the second of two one-fragment messages of a connection was discarded:
\* the first is still on the queue, which it fills, no thread has taken
\* anything from the queue, and the loop thread is back in the engine with
\* the connection in the table
C21_Witness ==
    \E s \in Sessions :
        /\ Len(recvd[s]) = 2
        /\ recvd[s][1].final /\ recvd[s][2].first /\ recvd[s][2].final
        /\ incomingMessages.items = <<InMessage(sess[s].conn, <<<<s, 1>>>>)>>
        /\ size(incomingMessages) = incomingMessages.capacity
        /\ pc = "service"
        /\ rxPending = NoRx
        /\ ~msgDispatcherThread
        /\ ret = NoResult /\ receiver = NoReceive
        /\ sess[s].st = "open"
        /\ sess[s].conn \in DOMAIN wsConnections

\* the frame session s is given in this step was written short
ShortWrite(s) ==
    /\ Len(wire'[s]) = Len(wire[s]) + 1
    /\ wire'[s][Len(wire'[s])].short

\* C22: a short write is fatal to that connection only. In the step in which
\* lws_write takes fewer bytes than the chunk, the outbox of the connection
\* is cleared and the callback returns -1 (the session is marked for the
\* engine to close); the table keeps its entries, and the outbox and cursor
\* of every other connection and every other session are as before. From
\* then on nothing more is written to that session: the only thing that
\* happens to it is its close. Checked under Spec.
C22_ShortWriteClosesThatConnectionOnly ==
    /\ [][\A s \in Sessions :
             ShortWrite(s) =>
                 LET id == sess[s].conn
                 IN /\ wsConnections[id].outbox # NULL
                    /\ wsConnections'[id].outbox = NULL
                    /\ sess'[s] = [sess[s] EXCEPT !.st = "failed"]
                    /\ DOMAIN wsConnections' = DOMAIN wsConnections
                    /\ \A k \in DOMAIN wsConnections \ {id} :
                           wsConnections'[k] = wsConnections[k]
                    /\ \A t \in Sessions \ {s} : sess'[t] = sess[t]
         ]_vars
    /\ [][\A s \in Sessions :
             sess[s].st = "failed" =>
                 /\ sess'[s] \in {sess[s], NoSession}
                 /\ wire'[s] \in {wire[s], <<>>}
                 /\ sess[s].conn \in DOMAIN wsConnections'
                       => wsConnections'[sess[s].conn].outbox = NULL
         ]_vars

\* a connection failed on the first chunk of a message of several chunks
\* while another connection has its own message pending
C22_Witness ==
    \E s \in Sessions, t \in Sessions :
        /\ s # t
        /\ sess[s].st = "failed"
        /\ Len(wire[s]) = 1
        /\ wire[s][1].short /\ wire[s][1].first /\ ~wire[s][1].final
        /\ wsConnections[sess[s].conn].outbox = NULL
        /\ sess[t].st = "open"
        /\ wsConnections[sess[t].conn].outbox # NULL

(***************************************************************************)
(* Webserver: the claims about runs that follow one another, checked       *)
(* under SpecRestart                                                       *)
(***************************************************************************)
\* the server was started in callback mode and keeps running: its dispatcher
\* thread exists and nobody has told the server to stop
RunningInCallbackMode ==
    /\ keepWorking
    /\ userCallback
    /\ msgDispatcherThread
    /\ ~ProcessDied

\* C23: callback-mode delivery. While a server started in callback mode
\* keeps running, the message at the head of the inbound queue is passed to
\* the user callback by the dispatcher thread without any further inbound
\* message: whenever the dispatcher thread is at the head of its loop with
\* messages on the queue, its take() returns the head and the callback is
\* entered with it. (Where this fails the dispatcher thread's step leaves
\* the state as it is, so it fails again for ever: the message is never
\* delivered.) Checked under SpecRestart.
C23_QueuedMessagesAreDelivered ==
    (RunningInCallbackMode /\ dpc = "loop" /\ incomingMessages.items # <<>>)
        => ENABLED (/\ dispatcherLoop
                    /\ dpc' = "callback"
                    /\ delivered' = Head(incomingMessages.items))

\* C29: poll-mode receive sees queued messages. A receiveMessage call made
\* with no callback registered while the inbound queue is not empty returns
\* at once, with the head of the queue, which it removes, whatever start(),
\* stop() and setMessageCallback calls came before. Checked under
\* SpecRestart.
C29_PollReceiveReturnsHead ==
    [][(~userCallback /\ incomingMessages.items # <<>> /\ ReceiveReturnsAtOnce) =>
           /\ ret' = Result("receiveMessage", "item", Head(incomingMessages.items))
           /\ incomingMessages'.items = Tail(incomingMessages.items)
      ]_vars

\* the stop() that the user callback called waits in serverThread->join()
\* for the loop thread, and the loop thread waits in
\* msgDispatcherThread->join() for the dispatcher thread, which is the
\* thread inside that stop()
JoinCycle ==
    /\ dpc = "stop"
    /\ stopper = "join"
    /\ pc = "join"

\* C30: stop() is safe to call from the user message callback: a stop()
\* called by the callback, on the dispatcher thread, never takes part in a
\* cycle of joins, in which neither stop() can return nor the loop thread
\* and the dispatcher thread can exit. Checked under SpecRestart.
C30_StopFromCallbackReturns == ~JoinCycle

(***************************************************************************)
(* Webserver: the claims about the loop thread and the outbound queue,     *)
(* checked under SpecDrain                                                 *)
(***************************************************************************)
\* C24: the loop thread never waits on a queue. From the moment its test
\* "outgoingMessages.size() > 0" has succeeded until its take() runs, the
\* outbound queue is not empty and not interrupted, whatever sendMessage
\* callers do in between; take() then returns the head of the queue without
\* waiting and without throwing, and the loop thread is never inside the
\* wait of take(). The outbound queue is never interrupted at all. Checked
\* under SpecDrain.
C24_LoopThreadNeverWaits ==
    /\ [](pc = "take" => /\ outgoingMessages.items # <<>>
                         /\ ~outgoingMessages.interrupted)
    /\ [](pc # "takewait")
    /\ [](~outgoingMessages.interrupted)
    /\ [][pc = "take" => \/ pc' = "take"
                         \/ pc' = "crashed"
                         \/ /\ pc' = "fanout"
                            /\ m' = Head(outgoingMessages.items)
                            /\ outgoingMessages'.items = Tail(outgoingMessages.items)
         ]_vars

\* the loop thread has passed the size() test and stands before take()
\* while a sendMessage caller is in the middle of a call: it found the
\* queue full and is inside the wait of its offer
C24_Witness ==
    /\ pc = "take"
    /\ sender.st = "expired"
    /\ size(outgoingMessages) = outgoingMessages.capacity

Starting == pc \in {"init", "vhost"}

\* C26: Running is entered by the loop thread only. isRunning() is false
\* while the loop thread has not yet constructed the engine context and the
\* virtual hosts, and it is false when a start attempt has failed in the
\* construction. Checked under SpecLife.
C26_RunningEnteredByLoopThread ==
    /\ [](Starting => ~isRunning)
    /\ [][(Starting /\ pc' = "cleanup") => ~isRunning']_vars

(***************************************************************************)
(* Webserver: the claim about the table during the fan-out, checked under  *)
(* Spec                                                                    *)
(***************************************************************************)
\* the loop thread is inside "for ( auto& conn : wsConnections )", the
\* lws_service call in its body included
Iterating == pc \in {"fanout", "flush"}

\* C27: the connection table is stable during fan-out. While the loop
\* thread iterates the table for one dequeued message no connection is
\* added to the table or removed from it, and the entry the iterator stands
\* on during the engine service call inside the iteration is in the table.
\* Checked under Spec.
C27_TableStableDuringFanout ==
    /\ [][(Iterating /\ Iterating') =>
              DOMAIN wsConnections' = DOMAIN wsConnections]_vars
    /\ [](pc = "flush" => it \in DOMAIN wsConnections)

\* a thread inside interrupt() calls lws_cancel_service( context ) in this
\* step: the sendMessage caller, or the stop() caller
CallsCancel ==
    \/ sender.st = "cancel" /\ sender'.st # "cancel"
    \/ stopper = "cancel" /\ stopper' # "cancel"

\* C28: the engine wake primitive is only used on a live context: whenever
\* sendMessage or stop() calls lws_cancel_service, the context it passes has
\* been created and the loop thread has not yet destroyed it. Checked under
\* SpecLife.
C28_CancelOnLiveContextOnly ==
    [][CallsCancel => contextLive]_vars

====
